---- MODULE Spec2Model ----
(***************************************************************************)
(* Octopus Deploy MCP tools: the request primitive, the name resolver and  *)
(* the five tool operations of src/octopus_deploy_mcp/tools, as a state    *)
(* machine.  One invocation of a tool runs at a time; every call of        *)
(* _make_request is two steps (the client is opened and the request sent,  *)
(* then an outcome arrives and the handler runs on to its next request or  *)
(* to its return).  Python dicts are records whose DOMAIN is the set of    *)
(* keys present, JSON lists are sequences.                                 *)
(***************************************************************************)
EXTENDS Integers, Sequences, FiniteSets, TLC

VARIABLES
    base_url,   \* BaseOctopusTools.base_url (after rstrip('/'))
    api_key,    \* BaseOctopusTools.api_key
    op,         \* the tool being invoked, "none" before the first invocation
    args,       \* its arguments
    pc,         \* "idle", the request the invocation is at, or "done"
    client,     \* "open" while inside `with httpx.Client()`, else "closed"
    loc,        \* the invocation's local variables
    calls,      \* the _make_request calls of this invocation, in order
    netio,      \* clients opened by this invocation
    last,       \* the latest _make_request call that returned: what the
                \* exchange did and what _make_request returned
    ret,        \* what the invocation gave its caller
    remote,     \* the deployments the remote has recorded, newest first
    environ,    \* os.environ: OCTOPUS_URL and OCTOPUS_API_KEY
    settings,   \* what OctopusDeployConfig.from_env has come to
    heard       \* the results _make_request has returned to this invocation,
                \* in order (kept where the invocation is held against them)

vars ==
    <<base_url, api_key, op, args, pc, client, loc, calls, netio, last, ret,
      remote, environ, settings, heard>>

----------------------------------------------------------------------------
(* Bounds of the model                                                     *)

\* longest spaces, projects, channels, releases or package-versions
\* collection a remote returns
MaxItems == 2
\* longest environments collection
MaxEnvs == 2
\* longest deployments collection of a release
MaxDeps == 2
\* most package requirements of a deployment-process template
MaxPkgs == 2

----------------------------------------------------------------------------
(* Python values                                                           *)

\* None where a scalar is expected (dict.get of an absent key, JSON null)
None == "<None>"
\* None where a dict is expected (Optional[Dict])
NoneDict == [py_none |-> TRUE]
IsNone(x) == "py_none" \in DOMAIN x
\* truthiness of an Optional[Dict]: None and {} are falsy
Truthy(x) == ~IsNone(x) /\ DOMAIN x # {}

\* d.get(k, default) and d.get(k)
Get(d, k, default) == IF k \in DOMAIN d THEN d[k] ELSE default
GetN(d, k) == Get(d, k, None)
\* d[k] raises KeyError when k is absent
Has(d, k) == k \in DOMAIN d

\* f"{x}" of an optional string
Str(x) == IF x = None THEN "None" ELSE x

\* str.lower() on the names of the model
Lower(s) ==
    CASE s = "Default" -> "default"
      [] s = "DEFAULT" -> "default"
      [] s = "MyApp" -> "myapp"
      [] s = "Production" -> "production"
      [] s = "Staging" -> "staging"
      [] OTHER -> s

\* str.strip() on the argument strings of the model
Strip(s) ==
    CASE s = " " -> ""
      [] s = " 1.0 " -> "1.0"
      [] OTHER -> s

\* JSON values as _make_request hands them on
JList(items) == [kind |-> "list", items |-> items]
JDict(d) == [kind |-> "dict", d |-> d]
IsList(r) == r.kind = "list"

\* `"error" in r`: a key test on a dict, a membership test on a list (the
\* lists of the model hold dicts, never the string "error")
HasError(r) == r.kind = "dict" /\ "error" \in DOMAIN r.d

\* r if isinstance(r, list) else r.get("Items", [])
ItemsOf(r) == IF IsList(r) THEN r.items ELSE Get(r.d, "Items", <<>>)

\* sequences over S of length at most n
RECURSIVE SeqsUpTo(_, _)
SeqsUpTo(S, n) ==
    IF n = 0 THEN {<<>>}
    ELSE LET shorter == SeqsUpTo(S, n - 1)
         IN  shorter \cup {Append(s, x) : s \in {t \in shorter : Len(t) = n - 1}, x \in S}

----------------------------------------------------------------------------
(* base_tools.py: the request primitive                                    *)

MissingCredentials ==
    "Missing Octopus Deploy credentials. Please configure OCTOPUS_URL and OCTOPUS_API_KEY environment variables."
AuthFailed == "Authentication failed. Please check your API key."
ResourceNotFound == "Resource not found."
StatusFailed(code, text) ==
    "API request failed with status " \o ToString(code) \o ": " \o text
ConnectFailed(e) == "Failed to connect to Octopus Deploy API: " \o e
Unexpected(e) == "Unexpected error: " \o e

ErrorValue(msg) == JDict([error |-> msg])

\* the credentials check testing the base URL alone
ConfigMissingUrlOnly == base_url = ""

\* `not self.base_url or not self.api_key`
ConfigMissing == base_url = "" \/ api_key = None \/ api_key = ""

\* What the HTTP exchange can do.  json is the decoded body, or
\* Undecodable when response.json() raises.
Undecodable == [kind |-> "undecodable"]
Responded(code, text, json) == [t |-> "response", status |-> code, text |-> text, json |-> json]
RequestError == [t |-> "RequestError", e |-> "connection refused"]
\* no exchange took place
NoOutcome == [t |-> "none"]
NoExchange == [outcome |-> NoOutcome, result |-> [kind |-> "none"]]
OtherException == [t |-> "Exception", e |-> "boom"]

\* the status mapping taking 200 alone for success
StatusResultOnly200(o) ==
    IF o.status = 200
    THEN IF o.json = Undecodable
         THEN ErrorValue(Unexpected("Expecting value"))
         ELSE o.json
    ELSE IF o.status = 401 THEN ErrorValue(AuthFailed)
    ELSE IF o.status = 404 THEN ErrorValue(ResourceNotFound)
    ELSE ErrorValue(StatusFailed(o.status, o.text))

\* the mapping of the try block of _make_request, from outcome to result
StatusResult(o) ==
    IF o.status \in {200, 201}
    THEN IF o.json = Undecodable
         THEN ErrorValue(Unexpected("Expecting value"))
         ELSE o.json
    ELSE IF o.status = 401 THEN ErrorValue(AuthFailed)
    ELSE IF o.status = 404 THEN ErrorValue(ResourceNotFound)
    ELSE ErrorValue(StatusFailed(o.status, o.text))

make_request_result(o) ==
    CASE o.t = "response" -> StatusResult(o)
      [] o.t = "RequestError" -> ErrorValue(ConnectFailed(o.e))
      [] o.t = "Exception" -> ErrorValue(Unexpected(o.e))

----------------------------------------------------------------------------
(* The remote: what each endpoint can answer                               *)

SpaceEntries ==
    { [Id |-> "Spaces-1", Name |-> "Default"],
      [Id |-> "Spaces-2", Name |-> "Other"],
      [Name |-> "Default"] }

ProjectEntries ==
    { [Id |-> "Projects-1", Name |-> "MyApp", Description |-> "My application",
       ProjectGroupId |-> "ProjectGroups-1", LifecycleId |-> "Lifecycles-1",
       DeploymentProcessId |-> "deploymentprocess-Projects-1",
       VariableSetId |-> "variableset-Projects-1"],
      [Id |-> "Projects-2", Name |-> "Other"],
      [Name |-> "MyApp"] }

ChannelEntries ==
    { [Id |-> "Channels-1", Name |-> "Default"],
      [Id |-> "Channels-2", Name |-> "default"],
      [Name |-> "Default"] }

ReleaseEntries ==
    { [Id |-> "Releases-2", Version |-> "2.0", ReleaseNotes |-> "second",
       Assembled |-> "2024-02-01", ChannelId |-> "Channels-1",
       ProjectId |-> "Projects-1", SelectedPackages |-> <<>>],
      [Id |-> "Releases-1", Version |-> "1.0"],
      [Version |-> "1.0"] }

EnvironmentEntries ==
    { [Id |-> "Environments-1", Name |-> "Production"],
      [Id |-> "Environments-2", Name |-> "Staging"],
      [Name |-> "Production"] }

DeploymentEntries ==
    { [Id |-> "Deployments-1", EnvironmentId |-> "Environments-1",
       TaskId |-> "ServerTasks-1", Created |-> "2024-03-01",
       DeployedBy |-> "admin", Comments |-> "go"],
      [Id |-> "Deployments-2", EnvironmentId |-> "Environments-1",
       Created |-> "2024-03-02"],
      [Id |-> "Deployments-3", EnvironmentId |-> "Environments-2",
       TaskId |-> "ServerTasks-3", Created |-> "2024-03-03"] }

PackageEntries ==
    { [ActionName |-> "Deploy web", PackageReferenceName |-> "", FeedId |-> "Feeds-1",
       PackageId |-> "Web"],
      [ActionName |-> "Deploy api", PackageReferenceName |-> "api", FeedId |-> "Feeds-2",
       PackageId |-> "Api"],
      [ActionName |-> "Deploy db", PackageId |-> "Db"] }

VersionEntries ==
    { [Version |-> "3.1"], [Version |-> "3.0"], [Title |-> "Web"] }

TaskObjects ==
    { [Id |-> "ServerTasks-1", State |-> "Success", IsCompleted |-> TRUE,
       StartTime |-> "2024-03-01T10:00", CompletedTime |-> "2024-03-01T10:05",
       Duration |-> "5 minutes", HasWarningsOrErrors |-> FALSE],
      [Id |-> "ServerTasks-1", State |-> "Failed", IsCompleted |-> TRUE,
       HasWarningsOrErrors |-> TRUE, ErrorMessage |-> "step failed"] }

CreatedReleases ==
    { [Id |-> "Releases-9", Version |-> "1.0", Assembled |-> "2024-04-01",
       ChannelId |-> "Channels-1", ProjectId |-> "Projects-1",
       SelectedPackages |-> <<>>],
      [Id |-> "Releases-9"] }

CreatedDeployments ==
    { [Id |-> "Deployments-9", Name |-> "Deploy to Production", State |-> "Queued",
       Created |-> "2024-04-02", TaskId |-> "ServerTasks-9"],
      [Id |-> "Deployments-9"] }

\* an object that is no collection: it has no Items (and no Packages) key
PlainObject == [TotalResults |-> "0"]

\* a collection in both representations, and an object that holds none
Collections(entries, n) ==
    {JList(s) : s \in SeqsUpTo(entries, n)}
        \cup {JDict([Items |-> s]) : s \in SeqsUpTo(entries, n)}
        \cup {JDict(PlainObject)}

\* a single resource, or a list where one was expected
Resources(objects) == {JDict(o) : o \in objects} \cup {JList(<<>>)}

Bodies(kind) ==
    CASE kind = "spaces" -> Collections(SpaceEntries, MaxItems)
      [] kind = "projects" -> Collections(ProjectEntries, MaxItems)
      [] kind = "channels" -> Collections(ChannelEntries, MaxItems)
      [] kind = "releases" -> Collections(ReleaseEntries, MaxItems)
      [] kind = "environments" -> Collections(EnvironmentEntries, MaxEnvs)
      [] kind = "deployments" -> Collections(DeploymentEntries, MaxDeps)
      [] kind = "feed" -> Collections(VersionEntries, MaxItems)
      [] kind = "template" ->
            {JDict([Packages |-> s]) : s \in SeqsUpTo(PackageEntries, MaxPkgs)}
                \cup {JDict(PlainObject), JList(<<>>)}
      [] kind = "release_post" -> Resources(CreatedReleases)
      [] kind = "deploy_post" -> Resources(CreatedDeployments)
      [] kind = "task" -> Resources(TaskObjects)

SuccessStatuses == {200, 201}
FailureStatuses == {401, 404, 500, 204}

Outcomes(kind) ==
    {Responded(c, "", b) : c \in SuccessStatuses, b \in Bodies(kind) \cup {Undecodable}}
        \cup {Responded(c, "Internal Server Error", Undecodable) : c \in FailureStatuses}
        \cup {RequestError, OtherException}

----------------------------------------------------------------------------
(* base_tools.py: name resolution and release selection                    *)

Min(S) == CHOOSE i \in S : \A j \in S : i <= j

\* the resolver keeping the last entry of the name instead of the first
LastNamed(items, name) ==
    LET hits == {i \in 1..Len(items) : Lower(Get(items[i], "Name", "")) = Lower(name)}
    IN  IF hits = {} THEN NoneDict
        ELSE items[CHOOSE i \in hits : \A j \in hits : j <= i]

\* next((x for x in items if x.get('Name', '').lower() == name.lower()), None)
FirstNamed(items, name) ==
    LET hits == {i \in 1..Len(items) : Lower(Get(items[i], "Name", "")) = Lower(name)}
    IN  IF hits = {} THEN NoneDict ELSE items[Min(hits)]

\* the resolver handing the adapter's error dict on to its caller
get_by_name_keeping_error(r, name) ==
    IF HasError(r) THEN r.d ELSE FirstNamed(ItemsOf(r), name)

\* _get_by_name, given the result of its _make_request
get_by_name(r, name) ==
    IF HasError(r) THEN NoneDict ELSE FirstNamed(ItemsOf(r), name)

\* release selection taking the last element for the latest
find_release_last(releases, version) ==
    IF releases = <<>> THEN NoneDict
    ELSE IF version # None /\ version # ""
         THEN LET hits == {i \in 1..Len(releases) : GetN(releases[i], "Version") = version}
              IN  IF hits = {} THEN NoneDict ELSE releases[Min(hits)]
         ELSE releases[Len(releases)]

\* release selection falling back to the latest when the version is not there
find_release_or_latest(releases, version) ==
    IF releases = <<>> THEN NoneDict
    ELSE IF version # None /\ version # ""
         THEN LET hits == {i \in 1..Len(releases) : GetN(releases[i], "Version") = version}
              IN  IF hits = {} THEN releases[1] ELSE releases[Min(hits)]
         ELSE releases[1]

\* _find_release; version is None, "" or a version string
find_release(releases, version) ==
    IF releases = <<>> THEN NoneDict
    ELSE IF version # None /\ version # ""
         THEN LET hits == {i \in 1..Len(releases) : GetN(releases[i], "Version") = version}
              IN  IF hits = {} THEN NoneDict ELSE releases[Min(hits)]
         ELSE releases[1]

----------------------------------------------------------------------------
(* How a handler leaves a step: on to its next request, back to its caller *)
(* with a payload, or out with an exception                                *)

NoRet == [kind |-> "none"]

NoLocals ==
    [space |-> NoneDict, project |-> NoneDict, channel |-> NoneDict,
     release |-> NoneDict, environment |-> NoneDict, release_version |-> None,
     environment_name |-> None, environments |-> <<>>, env_ids |-> {},
     deployments |-> <<>>, deployment |-> NoneDict, statuses |-> <<>>,
     packages |-> <<>>, selected_packages |-> <<>>, i |-> 1]

Goto(p, l) == [pc |-> p, loc |-> l, ret |-> NoRet]
Return(payload) ==
    [pc |-> "done", loc |-> NoLocals, ret |-> [kind |-> "return", payload |-> payload]]
Raise(exc) ==
    [pc |-> "done", loc |-> NoLocals, ret |-> [kind |-> "raise", exc |-> exc]]

\* _error_response(message)
error_response(message) == Return([error |-> message])

IdName(x) == [id |-> GetN(x, "Id"), name |-> GetN(x, "Name")]

----------------------------------------------------------------------------
(* Steps shared by the five tools: space, then project                     *)

SpaceNotFound(a) == "Space '" \o a.space_name \o "' not found"

ProjectNotFound(o, a) ==
    IF o = "get_project_details"
    THEN "Project '" \o a.project_name \o "' not found in space '" \o a.space_name \o "'"
    ELSE "Project '" \o a.project_name \o "' not found in " \o a.space_name \o " space"

NoReleases(a) == "No releases found for project '" \o a.project_name \o "'"

ReleaseNotFound(a, version) ==
    "Release version '" \o Str(version) \o "' not found for project '"
        \o a.project_name \o "'"

EnvironmentNotFound(a, name) ==
    "Environment '" \o Str(name) \o "' not found in " \o a.space_name \o " space"

ChannelNotFound(a) ==
    "Channel '" \o a.channel_name \o "' not found for project '" \o a.project_name \o "'"

\* _get_space and the caller's `if not space`
AfterSpaces(o, a, l, r) ==
    LET space == get_by_name(r, a.space_name)
    IN  IF ~Truthy(space) THEN error_response(SpaceNotFound(a))
        ELSE IF ~Has(space, "Id") THEN Raise("KeyError")
        ELSE Goto("projects", [l EXCEPT !.space = space])

\* the project lookup with deploy_release going on to the environment
\* before the releases
AfterProjectsEnvironmentFirst(o, a, l, r) ==
    LET project == get_by_name(r, a.project_name)
    IN  IF ~Truthy(project) THEN error_response(ProjectNotFound(o, a))
        ELSE IF ~Has(project, "Id") THEN Raise("KeyError")
        ELSE Goto(CASE o = "create_release" -> "channels"
                    [] o = "deploy_release" -> "environments"
                    [] OTHER -> "releases",
                  [l EXCEPT !.project = project])

\* the project lookup and the first use of project['Id']
AfterProjects(o, a, l, r) ==
    LET project == get_by_name(r, a.project_name)
    IN  IF ~Truthy(project) THEN error_response(ProjectNotFound(o, a))
        ELSE IF ~Has(project, "Id") THEN Raise("KeyError")
        ELSE Goto(IF o = "create_release" THEN "channels" ELSE "releases",
                  [l EXCEPT !.project = project])

----------------------------------------------------------------------------
(* project_tools.py: get_project_details, with _get_active_environments    *)

NoActiveEnvironment == "There is no active environment with a release for this project"

\* the payload carrying the derived list as it is, empty or not
ProjectDetailsListAlways(l, environments) ==
    Return([success |-> TRUE,
            space |-> IdName(l.space),
            project |-> [id |-> GetN(l.project, "Id"),
                         name |-> GetN(l.project, "Name"),
                         description |-> Get(l.project, "Description", ""),
                         project_group_id |-> GetN(l.project, "ProjectGroupId"),
                         lifecycle_id |-> GetN(l.project, "LifecycleId"),
                         deployment_process_id |-> GetN(l.project, "DeploymentProcessId"),
                         variable_set_id |-> GetN(l.project, "VariableSetId")],
            active_environments |-> [list |-> environments]])

\* the payload built once _get_active_environments has returned
ProjectDetails(l, environments) ==
    Return([success |-> TRUE,
            space |-> IdName(l.space),
            project |-> [id |-> GetN(l.project, "Id"),
                         name |-> GetN(l.project, "Name"),
                         description |-> Get(l.project, "Description", ""),
                         project_group_id |-> GetN(l.project, "ProjectGroupId"),
                         lifecycle_id |-> GetN(l.project, "LifecycleId"),
                         deployment_process_id |-> GetN(l.project, "DeploymentProcessId"),
                         variable_set_id |-> GetN(l.project, "VariableSetId")],
            \* a string or a list in the code; tagged here, as TLC
            \* cannot compare a string with a sequence
            active_environments |->
                IF environments = <<>> THEN [message |-> NoActiveEnvironment]
                ELSE [list |-> environments]])

\* _get_active_environments, after the releases request
ActiveAfterReleases(l, r) ==
    IF HasError(r) THEN ProjectDetails(l, <<>>)
    ELSE IF IsList(r) THEN Raise("AttributeError")
    ELSE LET releases == Get(r.d, "Items", <<>>)
         IN  IF releases = <<>> THEN ProjectDetails(l, <<>>)
             ELSE IF ~Has(releases[1], "Id") THEN Raise("KeyError")
             ELSE Goto("deployments", [l EXCEPT !.release = releases[1]])

\* the set of truthy EnvironmentId values of the deployments
EnvIdsOf(deployments) ==
    {GetN(deployments[i], "EnvironmentId") : i \in 1..Len(deployments)} \ {None, ""}

\* _get_active_environments, after the deployments request
ActiveAfterDeployments(l, r) ==
    IF HasError(r) THEN ProjectDetails(l, <<>>)
    ELSE IF IsList(r) THEN Raise("AttributeError")
    ELSE LET deployments == Get(r.d, "Items", <<>>)
         IN  IF deployments = <<>> THEN ProjectDetails(l, <<>>)
             ELSE Goto("environments", [l EXCEPT !.env_ids = EnvIdsOf(deployments)])

\* the environments, in order, whose Id is one of ids, each as {id, name}
RECURSIVE ActiveOf(_, _)
ActiveOf(environments, ids) ==
    IF environments = <<>> THEN <<>>
    ELSE LET env == Head(environments)
             rest == ActiveOf(Tail(environments), ids)
         IN  IF GetN(env, "Id") \in ids
             THEN <<[id |-> GetN(env, "Id"), name |-> GetN(env, "Name")]>> \o rest
             ELSE rest

\* _get_active_environments, after the environments request
ActiveAfterEnvironments(l, r) ==
    IF HasError(r) THEN ProjectDetails(l, <<>>)
    ELSE ProjectDetails(l, ActiveOf(ItemsOf(r), l.env_ids))

----------------------------------------------------------------------------
(* release_tools.py: get_latest_release                                    *)

LatestAfterReleases(a, l, r) ==
    IF HasError(r) THEN Return(r.d)
    ELSE IF IsList(r) THEN Raise("AttributeError")
    ELSE LET releases == Get(r.d, "Items", <<>>)
         IN  IF releases = <<>> THEN error_response(NoReleases(a))
             ELSE LET latest_release == releases[1]
                  IN  Return([success |-> TRUE,
                              space |-> IdName(l.space),
                              project |-> IdName(l.project),
                              latest_release |->
                                  [id |-> GetN(latest_release, "Id"),
                                   version |-> GetN(latest_release, "Version"),
                                   release_notes |-> Get(latest_release, "ReleaseNotes", ""),
                                   assembled |-> GetN(latest_release, "Assembled"),
                                   channel_id |-> GetN(latest_release, "ChannelId"),
                                   project_id |-> GetN(latest_release, "ProjectId"),
                                   selected_packages |->
                                       Get(latest_release, "SelectedPackages", <<>>)]])

----------------------------------------------------------------------------
(* release_tools.py: create_release                                        *)

CreateAfterChannels(a, l, r) ==
    LET channel == get_by_name(r, a.channel_name)
    IN  IF ~Truthy(channel) THEN error_response(ChannelNotFound(a))
        ELSE IF ~Has(channel, "Id") THEN Raise("KeyError")
        ELSE Goto("template", [l EXCEPT !.channel = channel])

\* the head of the package loop: the feed request of package i, or, past
\* the last package, the release POST
CreateNextPackage(l) ==
    IF l.i > Len(l.packages) THEN Goto("release_post", l)
    ELSE IF ~Has(l.packages[l.i], "FeedId") \/ ~Has(l.packages[l.i], "PackageId")
         THEN Raise("KeyError")
         ELSE Goto("feed", l)

CreateAfterTemplate(a, l, r) ==
    IF HasError(r) THEN Return(r.d)
    ELSE IF IsList(r) THEN Raise("AttributeError")
    ELSE CreateNextPackage([l EXCEPT !.packages = Get(r.d, "Packages", <<>>),
                                     !.selected_packages = <<>>, !.i = 1])

\* the package loop taking the last item of a feed response
CreateAfterFeedLastItem(a, l, r) ==
    IF HasError(r) THEN Return(r.d)
    ELSE LET packages == ItemsOf(r)
             package == l.packages[l.i]
         IN  IF packages = <<>> THEN CreateNextPackage([l EXCEPT !.i = @ + 1])
             ELSE IF ~Has(package, "ActionName") \/ ~Has(package, "PackageReferenceName")
                        \/ ~Has(packages[Len(packages)], "Version")
                  THEN Raise("KeyError")
                  ELSE CreateNextPackage(
                           [l EXCEPT !.i = @ + 1,
                                     !.selected_packages =
                                         Append(@, [ActionName |-> package.ActionName,
                                                    PackageReferenceName |->
                                                        package.PackageReferenceName,
                                                    Version |->
                                                        packages[Len(packages)].Version])])

\* the package loop passing over a package whose feed query failed
CreateAfterFeedSkipsError(a, l, r) ==
    IF HasError(r) THEN CreateNextPackage([l EXCEPT !.i = @ + 1])
    ELSE LET packages == ItemsOf(r)
             package == l.packages[l.i]
         IN  IF packages = <<>> THEN CreateNextPackage([l EXCEPT !.i = @ + 1])
             ELSE IF ~Has(package, "ActionName") \/ ~Has(package, "PackageReferenceName")
                        \/ ~Has(packages[1], "Version")
                  THEN Raise("KeyError")
                  ELSE CreateNextPackage(
                           [l EXCEPT !.i = @ + 1,
                                     !.selected_packages =
                                         Append(@, [ActionName |-> package.ActionName,
                                                    PackageReferenceName |->
                                                        package.PackageReferenceName,
                                                    Version |-> packages[1].Version])])

\* the body of the package loop, from the feed request's result on
CreateAfterFeed(a, l, r) ==
    IF HasError(r) THEN Return(r.d)
    ELSE LET packages == ItemsOf(r)
             package == l.packages[l.i]
         IN  IF packages = <<>> THEN CreateNextPackage([l EXCEPT !.i = @ + 1])
             ELSE IF ~Has(package, "ActionName") \/ ~Has(package, "PackageReferenceName")
                        \/ ~Has(packages[1], "Version")
                  THEN Raise("KeyError")
                  ELSE CreateNextPackage(
                           [l EXCEPT !.i = @ + 1,
                                     !.selected_packages =
                                         Append(@, [ActionName |-> package.ActionName,
                                                    PackageReferenceName |->
                                                        package.PackageReferenceName,
                                                    Version |-> packages[1].Version])])

\* the body of the release POST
ReleaseData(a, l) ==
    [ChannelId |-> l.channel.Id, ProjectId |-> l.project.Id, Version |-> a.version,
     SelectedPackages |-> l.selected_packages]

CreateAfterPost(a, l, r) ==
    IF HasError(r) THEN Return(r.d)
    ELSE IF IsList(r) THEN Raise("AttributeError")
    ELSE Return([success |-> TRUE,
                 message |-> "Release '" \o a.version
                                \o "' created successfully for project '"
                                \o a.project_name \o "'",
                 space |-> IdName(l.space),
                 project |-> IdName(l.project),
                 channel |-> IdName(l.channel),
                 release |-> [id |-> GetN(r.d, "Id"),
                              version |-> GetN(r.d, "Version"),
                              assembled |-> GetN(r.d, "Assembled"),
                              channel_id |-> GetN(r.d, "ChannelId"),
                              project_id |-> GetN(r.d, "ProjectId"),
                              selected_packages |-> Get(r.d, "SelectedPackages", <<>>)]])

----------------------------------------------------------------------------
(* deployment_tools.py: deploy_release                                     *)

\* the releases step deploy_release and check_deployment_status share
SelectAfterReleases(a, l, r) ==
    IF HasError(r) THEN Return(r.d)
    ELSE IF IsList(r) THEN Raise("AttributeError")
    ELSE LET releases == Get(r.d, "Items", <<>>)
             release == find_release(releases, l.release_version)
         IN  IF releases = <<>> THEN error_response(NoReleases(a))
             ELSE IF ~Truthy(release)
                  THEN error_response(ReleaseNotFound(a, l.release_version))
                  ELSE Goto("environments", [l EXCEPT !.release = release])

\* deploy_release going on to its POST whether the environment was found or not
DeployAfterEnvironmentsUnchecked(a, l, r) ==
    Goto("deploy_post", [l EXCEPT !.environment = get_by_name(r, a.environment_name)])

DeployAfterEnvironments(a, l, r) ==
    LET environment == get_by_name(r, a.environment_name)
    IN  IF ~Truthy(environment)
        THEN error_response(EnvironmentNotFound(a, a.environment_name))
        ELSE Goto("deploy_post", [l EXCEPT !.environment = environment])

\* the body of the deployment POST with the two ids in each other's place
DeploymentDataSwapped(l) ==
    [ReleaseId |-> GetN(l.environment, "Id"), EnvironmentId |-> GetN(l.release, "Id")]

\* the body of the deployment POST
DeploymentData(l) ==
    [ReleaseId |-> GetN(l.release, "Id"), EnvironmentId |-> GetN(l.environment, "Id")]

DeployAdvisory ==
    "Deployment has been initiated successfully. This does not guarantee the deployment completed successfully."
DeployNextStep ==
    "Use the check_deployment_status tool to monitor the actual deployment progress and final status."

\* deploy_release with the early return its tests expect after a failed POST
DeployAfterPostReturnsError(a, l, r) ==
    IF HasError(r) THEN Return(r.d)
    ELSE IF IsList(r) THEN Raise("AttributeError")
    ELSE Return([success |-> TRUE, message |-> DeployAdvisory,
                 next_step |-> DeployNextStep,
                 space |-> IdName(l.space), project |-> IdName(l.project),
                 release |-> [id |-> GetN(l.release, "Id"),
                              version |-> GetN(l.release, "Version")],
                 environment |-> IdName(l.environment),
                 deployment |-> [id |-> GetN(r.d, "Id"), name |-> GetN(r.d, "Name"),
                                 state |-> GetN(r.d, "State"),
                                 created |-> GetN(r.d, "Created"),
                                 task_id |-> GetN(r.d, "TaskId")]])

\* deploy_release adding the POST's error to the payload it builds
DeployAfterPostMixed(a, l, r) ==
    IF IsList(r) THEN Raise("AttributeError")
    ELSE Return((IF HasError(r) THEN [error |-> r.d.error] ELSE [success |-> TRUE])
                @@ [success |-> TRUE, message |-> DeployAdvisory,
                    next_step |-> DeployNextStep,
                    space |-> IdName(l.space), project |-> IdName(l.project),
                    release |-> [id |-> GetN(l.release, "Id"),
                                 version |-> GetN(l.release, "Version")],
                    environment |-> IdName(l.environment),
                    deployment |-> [id |-> GetN(r.d, "Id"), name |-> GetN(r.d, "Name"),
                                    state |-> GetN(r.d, "State"),
                                    created |-> GetN(r.d, "Created"),
                                    task_id |-> GetN(r.d, "TaskId")]])

\* deploy_release from the POST's result on: an error result is logged
\* and the payload is built from it all the same
DeployAfterPost(a, l, r) ==
    IF IsList(r) THEN Raise("AttributeError")
    ELSE Return([success |-> TRUE,
                 message |-> DeployAdvisory,
                 next_step |-> DeployNextStep,
                 space |-> IdName(l.space),
                 project |-> IdName(l.project),
                 release |-> [id |-> GetN(l.release, "Id"),
                              version |-> GetN(l.release, "Version")],
                 environment |-> IdName(l.environment),
                 deployment |-> [id |-> GetN(r.d, "Id"),
                                 name |-> GetN(r.d, "Name"),
                                 state |-> GetN(r.d, "State"),
                                 created |-> GetN(r.d, "Created"),
                                 task_id |-> GetN(r.d, "TaskId")]])

----------------------------------------------------------------------------
(* deployment_tools.py: check_deployment_status                            *)

\* the environments to check taken to be all of the space, name or no name
get_all_environments(l, r) ==
    IF HasError(r) THEN <<>> ELSE ItemsOf(r)

\* _get_environments_to_check, given the result of its request
get_environments_to_check(l, r) ==
    IF l.environment_name # None /\ l.environment_name # ""
    THEN LET environment == get_by_name(r, l.environment_name)
         IN  IF Truthy(environment) THEN <<environment>> ELSE <<>>
    ELSE IF HasError(r) THEN <<>> ELSE ItemsOf(r)

\* an environment's deployments in reverse order, the last one first
RECURSIVE DeploymentsOfReversed(_, _)
DeploymentsOfReversed(deployments, env_id) ==
    IF deployments = <<>> THEN <<>>
    ELSE IF GetN(Head(deployments), "EnvironmentId") = env_id
         THEN DeploymentsOfReversed(Tail(deployments), env_id) \o <<Head(deployments)>>
         ELSE DeploymentsOfReversed(Tail(deployments), env_id)

\* [d for d in deployments if d.get("EnvironmentId") == env_id]
RECURSIVE DeploymentsOf(_, _)
DeploymentsOf(deployments, env_id) ==
    IF deployments = <<>> THEN <<>>
    ELSE IF GetN(Head(deployments), "EnvironmentId") = env_id
         THEN <<Head(deployments)>> \o DeploymentsOf(Tail(deployments), env_id)
         ELSE DeploymentsOf(Tail(deployments), env_id)

\* the dict _get_deployment_status starts from
BaseStatus(deployment) ==
    [deployment_id |-> GetN(deployment, "Id"),
     state |-> None,
     completed |-> FALSE,
     started |-> GetN(deployment, "Created"),
     completed_time |-> None,
     duration |-> None,
     task_id |-> GetN(deployment, "TaskId"),
     deployed_by |-> GetN(deployment, "DeployedBy"),
     comments |-> Get(deployment, "Comments", "")]

\* the status keeping the deployment's created timestamp as its start
TaskStatusKeepsCreated(deployment, task) ==
    LET updated == [BaseStatus(deployment) EXCEPT
                        !.state = GetN(task, "State"),
                        !.completed = Get(task, "IsCompleted", FALSE),
                        !.completed_time = GetN(task, "CompletedTime"),
                        !.duration = GetN(task, "Duration")]
    IN  IF Get(task, "HasWarningsOrErrors", FALSE)
        THEN [error_message |-> Get(task, "ErrorMessage", "")] @@ updated
        ELSE updated

\* deployment_status.update({...}) from the task, and error_message
TaskStatus(deployment, task) ==
    LET updated == [BaseStatus(deployment) EXCEPT
                        !.state = GetN(task, "State"),
                        !.completed = Get(task, "IsCompleted", FALSE),
                        !.started = GetN(task, "StartTime"),
                        !.completed_time = GetN(task, "CompletedTime"),
                        !.duration = GetN(task, "Duration")]
    IN  IF Get(task, "HasWarningsOrErrors", FALSE)
        THEN [error_message |-> Get(task, "ErrorMessage", "")] @@ updated
        ELSE updated

StatusEntry(env, deployment_status) ==
    [environment |-> IdName(env), deployment_status |-> deployment_status]

\* the summary counting the deployments fetched instead of the entries
CheckResultCountsDeployments(l) ==
    Return([success |-> TRUE,
            space |-> IdName(l.space),
            project |-> IdName(l.project),
            release |-> [id |-> GetN(l.release, "Id"),
                         version |-> GetN(l.release, "Version")],
            deployment_statuses |-> l.statuses,
            summary |-> [total_environments_checked |-> Len(l.environments),
                         deployed_count |-> Len(l.deployments),
                         environments_with_deployments |-> Len(l.statuses)]])

\* the payload of a successful check_deployment_status
CheckResult(l) ==
    Return([success |-> TRUE,
            space |-> IdName(l.space),
            project |-> IdName(l.project),
            release |-> [id |-> GetN(l.release, "Id"),
                         version |-> GetN(l.release, "Version")],
            deployment_statuses |-> l.statuses,
            summary |-> [total_environments_checked |-> Len(l.environments),
                         deployed_count |-> Len(l.statuses),
                         environments_with_deployments |-> Len(l.statuses)]])

\* the loop of _build_environment_statuses from environment i on, up to
\* the next task request or to the end of the operation
RECURSIVE CheckNextEnvironment(_)
CheckNextEnvironment(l) ==
    IF l.i > Len(l.environments) THEN CheckResult(l)
    ELSE LET env == l.environments[l.i]
             env_deployments == DeploymentsOf(l.deployments, GetN(env, "Id"))
         IN  IF env_deployments = <<>>
             THEN CheckNextEnvironment([l EXCEPT !.i = @ + 1])
             ELSE LET latest_deployment == env_deployments[1]
                      task_id == GetN(latest_deployment, "TaskId")
                  IN  IF task_id # None /\ task_id # ""
                      THEN Goto("task", [l EXCEPT !.deployment = latest_deployment])
                      ELSE CheckNextEnvironment(
                               [l EXCEPT !.i = @ + 1,
                                         !.statuses =
                                             Append(@, StatusEntry(env,
                                                        BaseStatus(latest_deployment)))])

\* check_deployment_status going on with whatever environments it got,
\* none included
CheckAfterEnvironmentsAnyList(a, l, r) ==
    IF ~Has(l.release, "Id") THEN Raise("KeyError")
    ELSE Goto("deployments", [l EXCEPT !.environments = get_environments_to_check(l, r)])

CheckAfterEnvironments(a, l, r) ==
    LET environments_to_check == get_environments_to_check(l, r)
    IN  IF environments_to_check = <<>>
        THEN error_response(EnvironmentNotFound(a, l.environment_name))
        ELSE IF ~Has(l.release, "Id") THEN Raise("KeyError")
        ELSE Goto("deployments", [l EXCEPT !.environments = environments_to_check])

\* check_deployment_status taking a failed deployments fetch for no deployments
CheckAfterDeploymentsIgnoresError(a, l, r) ==
    IF IsList(r) THEN Raise("AttributeError")
    ELSE CheckNextEnvironment([l EXCEPT !.deployments = Get(r.d, "Items", <<>>),
                                        !.statuses = <<>>, !.i = 1])

CheckAfterDeployments(a, l, r) ==
    IF HasError(r) THEN Return(r.d)
    ELSE IF IsList(r) THEN Raise("AttributeError")
    ELSE CheckNextEnvironment([l EXCEPT !.deployments = Get(r.d, "Items", <<>>),
                                        !.statuses = <<>>, !.i = 1])

\* _get_deployment_status fetching the task again when the fetch failed
CheckAfterTaskRetries(a, l, r) ==
    IF HasError(r) THEN Goto("task", l)
    ELSE IF IsList(r) THEN Raise("AttributeError")
    ELSE CheckNextEnvironment(
             [l EXCEPT !.i = @ + 1,
                       !.deployment = NoneDict,
                       !.statuses = Append(@, StatusEntry(l.environments[l.i],
                                                          TaskStatus(l.deployment, r.d)))])

\* _get_deployment_status from the task request's result on
CheckAfterTask(a, l, r) ==
    LET env == l.environments[l.i]
        deployment_status ==
            IF HasError(r) THEN BaseStatus(l.deployment)
            ELSE TaskStatus(l.deployment, r.d)
    IN  IF ~HasError(r) /\ IsList(r) THEN Raise("AttributeError")
        ELSE CheckNextEnvironment(
                 [l EXCEPT !.i = @ + 1,
                           !.deployment = NoneDict,
                           !.statuses = Append(@, StatusEntry(env, deployment_status))])

----------------------------------------------------------------------------
(* The five tools as step machines                                         *)

Tools ==
    {"get_project_details", "get_latest_release", "create_release", "deploy_release",
     "check_deployment_status"}

RequestKinds ==
    {"spaces", "projects", "channels", "releases", "deployments", "environments",
     "template", "feed", "release_post", "deploy_post", "task"}

ProjectNames == {"", "MyApp"}
SpaceNames == {"Default"}

\* the argument tuples the tools are invoked with
ArgsOf(o) ==
    CASE o \in {"get_project_details", "get_latest_release"} ->
            [project_name : ProjectNames, space_name : SpaceNames]
      [] o = "create_release" ->
            [project_name : ProjectNames, version : {"", "1.0"},
             channel_name : {"Default"}, space_name : SpaceNames]
      [] o = "deploy_release" ->
            [project_name : ProjectNames, environment_name : {"", "Production"},
             release_version : {None, "", "1.0", "9.9"}, space_name : SpaceNames]
      [] o = "check_deployment_status" ->
            [project_name : ProjectNames, release_version : {"", "1.0", "9.9"},
             environment_name : {"", " ", "Production"}, space_name : SpaceNames]

\* `x.strip() if x else None`
StripOrNone(x) == IF x # None /\ x # "" THEN Strip(x) ELSE None

\* the parameter checks with deploy_release testing project_name alone
ValidationProjectOnly(o, a) ==
    CASE o \in {"get_project_details", "get_latest_release", "check_deployment_status"} ->
            IF a.project_name = "" THEN "project_name is required" ELSE None
      [] o = "create_release" ->
            IF a.project_name = "" \/ a.version = ""
            THEN "project_name and version are required" ELSE None
      [] o = "deploy_release" ->
            IF a.project_name = ""
            THEN "project_name and environment_name are required" ELSE None

\* the parameter check each tool opens with: the message it returns, or
\* None when the parameters pass
Validation(o, a) ==
    CASE o \in {"get_project_details", "get_latest_release", "check_deployment_status"} ->
            IF a.project_name = "" THEN "project_name is required" ELSE None
      [] o = "create_release" ->
            IF a.project_name = "" \/ a.version = ""
            THEN "project_name and version are required" ELSE None
      [] o = "deploy_release" ->
            IF a.project_name = "" \/ a.environment_name = ""
            THEN "project_name and environment_name are required" ELSE None

\* a tool taking the Default space for resolved and starting at the projects
StartAtProjects(o, a) ==
    IF Validation(o, a) # None THEN error_response(Validation(o, a))
    ELSE Goto("projects",
              [(CASE o = "deploy_release" ->
                      [NoLocals EXCEPT !.release_version = a.release_version,
                                       !.environment_name = a.environment_name]
                  [] o = "check_deployment_status" ->
                      [NoLocals EXCEPT !.release_version = StripOrNone(a.release_version),
                                       !.environment_name =
                                           StripOrNone(a.environment_name)]
                  [] OTHER -> NoLocals)
               EXCEPT !.space = [Id |-> "Spaces-1", Name |-> "Default"]])

\* a tool from its entry to its first request
Start(o, a) ==
    IF Validation(o, a) # None THEN error_response(Validation(o, a))
    ELSE Goto("spaces",
              CASE o = "deploy_release" ->
                      [NoLocals EXCEPT !.release_version = a.release_version,
                                       !.environment_name = a.environment_name]
                [] o = "check_deployment_status" ->
                      [NoLocals EXCEPT !.release_version = StripOrNone(a.release_version),
                                       !.environment_name =
                                           StripOrNone(a.environment_name)]
                [] OTHER -> NoLocals)

\* a tool from the result r of the request it is at (p) to its next
\* request, its return or its exception
Resume(o, a, p, l, r) ==
    CASE p = "spaces" -> AfterSpaces(o, a, l, r)
      [] p = "projects" -> AfterProjects(o, a, l, r)
      [] p = "channels" -> CreateAfterChannels(a, l, r)
      [] p = "template" -> CreateAfterTemplate(a, l, r)
      [] p = "feed" -> CreateAfterFeed(a, l, r)
      [] p = "release_post" -> CreateAfterPost(a, l, r)
      [] p = "deploy_post" -> DeployAfterPost(a, l, r)
      [] p = "task" -> CheckAfterTask(a, l, r)
      [] p = "releases" ->
            CASE o = "get_project_details" -> ActiveAfterReleases(l, r)
              [] o = "get_latest_release" -> LatestAfterReleases(a, l, r)
              [] OTHER -> SelectAfterReleases(a, l, r)
      [] p = "deployments" ->
            CASE o = "get_project_details" -> ActiveAfterDeployments(l, r)
              [] OTHER -> CheckAfterDeployments(a, l, r)
      [] p = "environments" ->
            CASE o = "get_project_details" -> ActiveAfterEnvironments(l, r)
              [] o = "deploy_release" -> DeployAfterEnvironments(a, l, r)
              [] OTHER -> CheckAfterEnvironments(a, l, r)

\* the endpoint of the request at p
Endpoint(p, l) ==
    CASE p = "spaces" -> "spaces/all"
      [] p = "projects" -> l.space.Id \o "/projects/all"
      [] p = "channels" -> l.space.Id \o "/projects/" \o l.project.Id \o "/channels"
      [] p = "releases" -> l.space.Id \o "/projects/" \o l.project.Id \o "/releases"
      [] p = "deployments" -> l.space.Id \o "/releases/" \o l.release.Id \o "/deployments"
      [] p = "environments" -> l.space.Id \o "/environments/all"
      [] p = "template" ->
            l.space.Id \o "/deploymentprocesses/deploymentprocess-" \o l.project.Id
                \o "/template?channel=" \o l.channel.Id
      [] p = "feed" ->
            l.space.Id \o "/feeds/" \o l.packages[l.i].FeedId
                \o "/packages/versions?packageId=" \o l.packages[l.i].PackageId
                \o "&take=1"
      [] p = "release_post" -> l.space.Id \o "/releases"
      [] p = "deploy_post" -> l.space.Id \o "/deployments"
      [] p = "task" -> "tasks/" \o l.deployment.TaskId

\* the call of _make_request at p: endpoint, method, data
Request(a, p, l) ==
    [kind |-> p,
     endpoint |-> Endpoint(p, l),
     method |-> IF p \in {"release_post", "deploy_post"} THEN "POST" ELSE "GET",
     data |-> CASE p = "release_post" -> ReleaseData(a, l)
                [] p = "deploy_post" -> DeploymentData(l)
                [] OTHER -> NoneDict,
     result |-> "pending"]

\* server.config.get("base_url", "").rstrip('/') on the URLs of the model
RStripSlash(u) ==
    CASE u = "/" -> ""
      [] u = "https://octopus.example/api/" -> "https://octopus.example/api"
      [] OTHER -> u

\* os.getenv of a variable that is not set
Unset == [unset |-> TRUE]
NoEnviron == [OCTOPUS_URL |-> Unset, OCTOPUS_API_KEY |-> Unset]
\* from_env has not run
Unloaded == [loaded |-> FALSE]

ConfiguredUrls == {"", "/", "https://octopus.example/api", "https://octopus.example/api/"}
ConfiguredKeys == {None, "", "API-KEY"}

\* the tools are constructed over a given configuration, as the test
\* fixtures do; the environment is not read and the remote keeps nothing
Init ==
    /\ environ = NoEnviron
    /\ settings = Unloaded
    /\ heard = <<>>
    /\ remote = <<>>
    /\ base_url \in {RStripSlash(u) : u \in ConfiguredUrls}
    /\ api_key \in ConfiguredKeys
    /\ op = "none"
    /\ args = NoneDict
    /\ pc = "idle"
    /\ client = "closed"
    /\ loc = NoLocals
    /\ calls = <<>>
    /\ netio = 0
    /\ last = NoExchange
    /\ ret = NoRet

\* the caller invokes tool o with arguments a
Invoke(o, a) ==
    /\ pc = "idle"
    /\ op' = o
    /\ args' = a
    /\ pc' = Start(o, a).pc
    /\ loc' = Start(o, a).loc
    /\ ret' = Start(o, a).ret
    /\ calls' = <<>>
    /\ netio' = 0
    /\ last' = NoExchange
    /\ UNCHANGED <<heard, remote, environ, settings, base_url, api_key, client>>

\* the handler takes up the result r of the request it is at
Continue(r) ==
    LET next == Resume(op, args, pc, loc, r)
    IN  /\ pc' = next.pc
        /\ loc' = next.loc
        /\ ret' = next.ret

\* _make_request without credentials: an error value, no client
MakeRequestNoCredentials ==
    /\ pc \in RequestKinds
    /\ client = "closed"
    /\ ConfigMissing
    /\ calls' = Append(calls, [Request(args, pc, loc) EXCEPT !.result = "error"])
    /\ last' = [outcome |-> NoOutcome, result |-> ErrorValue(MissingCredentials)]
    /\ Continue(ErrorValue(MissingCredentials))
    /\ UNCHANGED <<heard, remote, environ, settings, base_url, api_key, op, args, client, netio>>

\* _make_request opens a client and sends the request
MakeRequestSend ==
    /\ pc \in RequestKinds
    /\ client = "closed"
    /\ ~ConfigMissing
    /\ client' = "open"
    /\ netio' = netio + 1
    /\ calls' = Append(calls, Request(args, pc, loc))
    /\ last' = NoExchange
    /\ UNCHANGED <<heard, remote, environ, settings, base_url, api_key, op, args, pc, loc, ret>>

\* _make_request returning with its client left open when the exchange
\* raised something other than a request error
MakeRequestReturnLeaks ==
    /\ client = "open"
    /\ \E o \in Outcomes(pc) :
          /\ calls' = [calls EXCEPT ![Len(calls)].result =
                           IF HasError(make_request_result(o)) THEN "error" ELSE "ok"]
          /\ last' = [outcome |-> o, result |-> make_request_result(o)]
          /\ Continue(make_request_result(o))
          /\ client' = IF o.t = "Exception" THEN "open" ELSE "closed"
    /\ UNCHANGED <<heard, remote, environ, settings, base_url, api_key, op, args, netio>>

\* the exchange ends with some outcome: the client is released,
\* _make_request returns and the handler runs on
MakeRequestReturn ==
    /\ client = "open"
    /\ \E o \in Outcomes(pc) :
          /\ calls' = [calls EXCEPT ![Len(calls)].result =
                           IF HasError(make_request_result(o)) THEN "error" ELSE "ok"]
          /\ last' = [outcome |-> o, result |-> make_request_result(o)]
          /\ Continue(make_request_result(o))
    /\ client' = "closed"
    /\ UNCHANGED <<heard, remote, environ, settings, base_url, api_key, op, args, netio>>

\* the caller has the result; nothing of the invocation is kept
Finish ==
    /\ pc = "done"
    /\ pc' = "idle"
    /\ op' = "none"
    /\ args' = NoneDict
    /\ ret' = NoRet
    /\ calls' = <<>>
    /\ netio' = 0
    /\ last' = NoExchange
    /\ UNCHANGED <<heard, remote, environ, settings, base_url, api_key, client, loc>>

Next ==
    \/ Finish
    \/ \E o \in Tools : \E a \in ArgsOf(o) : Invoke(o, a)
    \/ MakeRequestNoCredentials
    \/ MakeRequestSend
    \/ MakeRequestReturn

Spec == Init /\ [][Next]_vars

----------------------------------------------------------------------------
(* The deployment workflow against a remote that records what it is sent:  *)
(* one space, one project, one release, one environment, as the workflow   *)
(* tests set it up                                                         *)

\* most deployments the workflow creates
MaxDeploys == 2

WorkflowSpace == [Id |-> "Spaces-1", Name |-> "Default"]
WorkflowProject == [Id |-> "Projects-1", Name |-> "MyApp"]
WorkflowRelease == [Id |-> "Releases-1", Version |-> "1.0", ProjectId |-> "Projects-1"]
WorkflowEnvironment == [Id |-> "Environments-1", Name |-> "Production"]

TaskStates == {"Queued", "Executing", "Success", "Failed"}

\* spaces/all, projects/all and environments/all answer with a bare list
\* or with {Items}; releases and deployments are paged: {Items}
EitherForm(items) == {JList(items), JDict([Items |-> items])}

\* the deployment the remote creates for the POST body data, its n-th
CreatedDeployment(data, n) ==
    [Id |-> "Deployments-" \o ToString(n),
     ReleaseId |-> data.ReleaseId,
     EnvironmentId |-> data.EnvironmentId,
     TaskId |-> "ServerTasks-" \o ToString(n),
     State |-> "Queued"]

\* the recorded deployments of the release a deployments endpoint names
RecordedFor(endpoint) ==
    SelectSeq(remote,
              LAMBDA d : endpoint = "Spaces-1/releases/" \o d.ReleaseId \o "/deployments")

\* the task of a recorded deployment, in whatever state it has reached
TasksAt(endpoint) ==
    {[Id |-> remote[k].TaskId, State |-> s, IsCompleted |-> s \in {"Success", "Failed"}] :
        k \in {i \in 1..Len(remote) : endpoint = "tasks/" \o remote[i].TaskId},
        s \in TaskStates}

\* how the recording remote answers a call
WorkflowOutcomes(call) ==
    CASE call.kind = "spaces" ->
            {Responded(200, "", b) : b \in EitherForm(<<WorkflowSpace>>)}
      [] call.kind = "projects" ->
            {Responded(200, "", b) : b \in EitherForm(<<WorkflowProject>>)}
      [] call.kind = "environments" ->
            {Responded(200, "", b) : b \in EitherForm(<<WorkflowEnvironment>>)}
      [] call.kind = "releases" ->
            {Responded(200, "", JDict([Items |-> <<WorkflowRelease>>]))}
      [] call.kind = "deployments" ->
            {Responded(200, "", JDict([Items |-> RecordedFor(call.endpoint)]))}
      [] call.kind = "deploy_post" ->
            {Responded(201, "", JDict(CreatedDeployment(call.data, Len(remote) + 1)))}
      [] call.kind = "task" ->
            IF TasksAt(call.endpoint) = {}
            THEN {Responded(404, "Not Found", Undecodable)}
            ELSE {Responded(200, "", JDict(t)) : t \in TasksAt(call.endpoint)}

WorkflowDeployArgs ==
    [project_name : {"MyApp"}, environment_name : {"Production"},
     release_version : {None, "", "1.0"}, space_name : {"Default"}]

WorkflowCheckArgs ==
    [project_name : {"MyApp"}, release_version : {"", "1.0"},
     environment_name : {"Production"}, space_name : {"Default"}]

WorkflowInit ==
    /\ environ = NoEnviron
    /\ settings = Unloaded
    /\ heard = <<>>
    /\ remote = <<>>
    /\ base_url = "https://octopus.example/api"
    /\ api_key = "API-KEY"
    /\ op = "none"
    /\ args = NoneDict
    /\ pc = "idle"
    /\ client = "closed"
    /\ loc = NoLocals
    /\ calls = <<>>
    /\ netio = 0
    /\ last = NoExchange
    /\ ret = NoRet

\* the release is deployed to the environment
WorkflowDeploy ==
    /\ Len(remote) < MaxDeploys
    /\ \E a \in WorkflowDeployArgs : Invoke("deploy_release", a)

\* the status is checked once a deployment has been created
WorkflowCheck ==
    /\ remote # <<>>
    /\ \E a \in WorkflowCheckArgs : Invoke("check_deployment_status", a)

\* the remote answers the request in flight, recording a deployment it
\* creates; _make_request returns and the handler runs on
WorkflowAnswer ==
    /\ client = "open"
    /\ \E o \in WorkflowOutcomes(calls[Len(calls)]) :
          /\ calls' = [calls EXCEPT ![Len(calls)].result =
                           IF HasError(make_request_result(o)) THEN "error" ELSE "ok"]
          /\ last' = [outcome |-> o, result |-> make_request_result(o)]
          /\ Continue(make_request_result(o))
          /\ remote' = IF pc = "deploy_post" THEN <<o.json.d>> \o remote ELSE remote
    /\ client' = "closed"
    /\ UNCHANGED <<heard, environ, settings, base_url, api_key, op, args, netio>>

WorkflowNext ==
    \/ WorkflowDeploy
    \/ WorkflowCheck
    \/ MakeRequestSend
    \/ WorkflowAnswer
    \/ Finish

SpecWorkflow == WorkflowInit /\ [][WorkflowNext]_vars

----------------------------------------------------------------------------
(* settings.py: OctopusDeployConfig.from_env.  Strings are sequences of    *)
(* characters here, so that rstrip and endswith are computed.              *)

\* longest OCTOPUS_URL
MaxUrlLen == 5

UrlChars == {"h", "/", "a", "p", "i"}
ApiSuffix == <<"/", "a", "p", "i">>

\* an environment variable that is set
SetTo(chars) == [value |-> chars]

\* `not x` for what os.getenv returned: None or the empty string
NotGiven(v) == "unset" \in DOMAIN v \/ v.value = <<>>

\* s.rstrip(c)
RECURSIVE rstrip(_, _)
rstrip(s, c) ==
    IF s # <<>> /\ s[Len(s)] = c THEN rstrip(SubSeq(s, 1, Len(s) - 1), c) ELSE s

\* s.endswith(suffix)
endswith(s, suffix) ==
    /\ Len(s) >= Len(suffix)
    /\ SubSeq(s, Len(s) - Len(suffix) + 1, Len(s)) = suffix

\* the normalisation appending "/api" whether or not it is there
AlwaysAppendApi(url) == rstrip(url, "/") \o ApiSuffix

\* base_url.rstrip('/'), then '/api' appended unless it ends with it
EnsureApiSuffix(url) ==
    LET stripped == rstrip(url, "/")
    IN  IF endswith(stripped, ApiSuffix) THEN stripped ELSE stripped \o ApiSuffix

\* sys.exit(code)
Exited(code) == [exit |-> code]

\* from_env over the environment env: the configuration, or the exit
from_env(env) ==
    IF NotGiven(env.OCTOPUS_URL) \/ NotGiven(env.OCTOPUS_API_KEY)
    THEN Exited(1)
    ELSE [base_url |-> EnsureApiSuffix(env.OCTOPUS_URL.value),
          api_key |-> env.OCTOPUS_API_KEY.value]

EnvironUrls == {Unset} \cup {SetTo(u) : u \in SeqsUpTo(UrlChars, MaxUrlLen)}
EnvironKeys == {Unset, SetTo(<<>>), SetTo(<<"K">>)}

\* the process starts: the environment is given, nothing is loaded and no
\* tool exists
ConfigInit ==
    /\ environ \in [OCTOPUS_URL : EnvironUrls, OCTOPUS_API_KEY : EnvironKeys]
    /\ settings = Unloaded
    /\ heard = <<>>
    /\ remote = <<>>
    /\ base_url = ""
    /\ api_key = None
    /\ op = "none"
    /\ args = NoneDict
    /\ pc = "idle"
    /\ client = "closed"
    /\ loc = NoLocals
    /\ calls = <<>>
    /\ netio = 0
    /\ last = NoExchange
    /\ ret = NoRet

\* a variable is missing: the process exits
FromEnvExit ==
    /\ settings = Unloaded
    /\ "exit" \in DOMAIN from_env(environ)
    /\ settings' = from_env(environ)
    /\ UNCHANGED <<heard, remote, environ, base_url, api_key, op, args, pc, client, loc,
                   calls, netio, last, ret>>

\* both variables are given: the configuration is returned
FromEnvReturn ==
    /\ settings = Unloaded
    /\ "exit" \notin DOMAIN from_env(environ)
    /\ settings' = from_env(environ)
    /\ UNCHANGED <<heard, remote, environ, base_url, api_key, op, args, pc, client, loc,
                   calls, netio, last, ret>>

ConfigNext == FromEnvExit \/ FromEnvReturn

SpecConfig == ConfigInit /\ [][ConfigNext]_vars

----------------------------------------------------------------------------
(* base_tools.py: _find_release called on its own, over lists of releases  *)
(* whose versions differ in case only, repeat, or are missing              *)

\* longest list of releases _find_release is given
MaxReleases == 3

SelectableReleases ==
    { [Id |-> "Releases-1", Version |-> "1.0-rc"],
      [Id |-> "Releases-2", Version |-> "1.0-RC"],
      [Id |-> "Releases-3", Version |-> "1.0-rc"],
      [Id |-> "Releases-4"] }

\* the version argument: omitted, empty, or a version string
SelectableVersions == {None, "", "1.0-rc", "1.0-RC", "2.0"}

FindReleaseInit ==
    /\ environ = NoEnviron
    /\ settings = Unloaded
    /\ heard = <<>>
    /\ remote = <<>>
    /\ base_url = "https://octopus.example/api"
    /\ api_key = "API-KEY"
    /\ op = "_find_release"
    /\ args \in [releases : SeqsUpTo(SelectableReleases, MaxReleases),
                  version : SelectableVersions]
    /\ pc = "idle"
    /\ client = "closed"
    /\ loc = NoLocals
    /\ calls = <<>>
    /\ netio = 0
    /\ last = NoExchange
    /\ ret = NoRet

\* _find_release(releases, version) runs and returns
FindReleaseCall ==
    /\ pc = "idle"
    /\ op = "_find_release"
    /\ pc' = "done"
    /\ ret' = [kind |-> "return", payload |-> find_release(args.releases, args.version)]
    /\ UNCHANGED <<heard, base_url, api_key, op, args, client, loc, calls, netio, last,
                   remote, environ, settings>>

FindReleaseNext == FindReleaseCall

SpecFindRelease == FindReleaseInit /\ [][FindReleaseNext]_vars

----------------------------------------------------------------------------
(* Invocations one after another, each held against the results it was     *)
(* given: the remote answers every request with one of a few bodies, a     *)
(* failure status or a network error                                       *)

\* the entry of the given Id
Entry(entries, id) == CHOOSE e \in entries : "Id" \in DOMAIN e /\ e.Id = id

RepeatBodies(kind) ==
    CASE kind = "spaces" ->
            {JList(<<Entry(SpaceEntries, "Spaces-1")>>),
             JDict([Items |-> <<Entry(SpaceEntries, "Spaces-2")>>])}
      [] kind = "projects" ->
            {JDict([Items |-> <<Entry(ProjectEntries, "Projects-2"),
                                Entry(ProjectEntries, "Projects-1")>>]),
             JList(<<>>)}
      [] kind = "channels" ->
            {JList(<<Entry(ChannelEntries, "Channels-1")>>), JDict([Items |-> <<>>])}
      [] kind = "releases" ->
            {JDict([Items |-> <<Entry(ReleaseEntries, "Releases-2"),
                                Entry(ReleaseEntries, "Releases-1")>>]),
             JDict([Items |-> <<Entry(ReleaseEntries, "Releases-1")>>]),
             JDict([Items |-> <<>>])}
      [] kind = "environments" ->
            {JList(<<Entry(EnvironmentEntries, "Environments-1"),
                     Entry(EnvironmentEntries, "Environments-2")>>),
             JDict([Items |-> <<Entry(EnvironmentEntries, "Environments-2")>>])}
      [] kind = "deployments" ->
            {JDict([Items |-> <<Entry(DeploymentEntries, "Deployments-1"),
                                Entry(DeploymentEntries, "Deployments-3")>>]),
             JDict([Items |-> <<Entry(DeploymentEntries, "Deployments-2")>>]),
             JDict([Items |-> <<>>])}
      [] kind = "template" ->
            {JDict([Packages |-> <<CHOOSE p \in PackageEntries : p.PackageId = "Web">>]),
             JDict([Packages |-> <<>>])}
      [] kind = "feed" ->
            {JList(<<[Version |-> "3.1"]>>), JDict([Items |-> <<>>])}
      [] kind = "release_post" -> {JDict(Entry(CreatedReleases, "Releases-9"))}
      [] kind = "deploy_post" -> {JDict(Entry(CreatedDeployments, "Deployments-9"))}
      [] kind = "task" -> {JDict(t) : t \in TaskObjects}

RepeatOutcomes(kind) ==
    {Responded(200, "", b) : b \in RepeatBodies(kind)}
        \cup {Responded(500, "Internal Server Error", Undecodable), RequestError}

RepeatInit ==
    /\ environ = NoEnviron
    /\ settings = Unloaded
    /\ heard = <<>>
    /\ remote = <<>>
    /\ base_url = "https://octopus.example/api"
    /\ api_key = "API-KEY"
    /\ op = "none"
    /\ args = NoneDict
    /\ pc = "idle"
    /\ client = "closed"
    /\ loc = NoLocals
    /\ calls = <<>>
    /\ netio = 0
    /\ last = NoExchange
    /\ ret = NoRet

\* the exchange ends with some outcome: _make_request returns its result
\* and the handler runs on
RepeatAnswer ==
    /\ client = "open"
    /\ \E o \in RepeatOutcomes(pc) :
          /\ calls' = [calls EXCEPT ![Len(calls)].result =
                           IF HasError(make_request_result(o)) THEN "error" ELSE "ok"]
          /\ last' = [outcome |-> o, result |-> make_request_result(o)]
          /\ heard' = Append(heard, make_request_result(o))
          /\ Continue(make_request_result(o))
    /\ client' = "closed"
    /\ UNCHANGED <<remote, environ, settings, base_url, api_key, op, args, netio>>

\* the caller has the result; nothing of the invocation is kept
RepeatFinish ==
    /\ pc = "done"
    /\ pc' = "idle"
    /\ op' = "none"
    /\ args' = NoneDict
    /\ ret' = NoRet
    /\ calls' = <<>>
    /\ netio' = 0
    /\ last' = NoExchange
    /\ heard' = <<>>
    /\ UNCHANGED <<remote, environ, settings, base_url, api_key, client, loc>>

RepeatNext ==
    \/ RepeatFinish
    \/ \E o \in Tools : \E a \in ArgsOf(o) : Invoke(o, a)
    \/ MakeRequestSend
    \/ RepeatAnswer

SpecRepeat == RepeatInit /\ [][RepeatNext]_vars

----------------------------------------------------------------------------
(* Properties                                                              *)

Done == pc = "done"
Returned == pc = "done" /\ ret.kind = "return"
IsErrorPayload(p) == "error" \in DOMAIN p /\ "success" \notin DOMAIN p
IsSuccessPayload(p) == "success" \in DOMAIN p /\ p.success = TRUE /\ "error" \notin DOMAIN p
\* the invocation has made a call and the latest one has returned
CallReturned == Len(calls) > 0 /\ client = "closed" /\ last # NoExchange
LastKind == calls[Len(calls)].kind
\* the latest exchange ended with an HTTP status
LastStatus(c) ==
    CallReturned /\ last.outcome.t = "response" /\ last.outcome.status = c
\* deploy_release has returned and its deployment POST ended in an adapter error
DeployPostFailed ==
    /\ Done /\ op = "deploy_release" /\ CallReturned
    /\ LastKind = "deploy_post" /\ HasError(last.result)

\* the release version an invocation selects by: None for the latest
RequestedVersion ==
    CASE op = "deploy_release" -> args.release_version
      [] op = "check_deployment_status" ->
            IF args.release_version = "" THEN None ELSE Strip(args.release_version)
      [] OTHER -> None

\* the environment name an invocation resolves: None for all environments
RequestedEnvironment ==
    CASE op = "deploy_release" -> args.environment_name
      [] op = "check_deployment_status" ->
            IF args.environment_name = "" THEN None ELSE Strip(args.environment_name)
      [] OTHER -> None

\* the latest call fetched its collection but the link the operation needs
\* is not in it: the name, the release, or any environment to check
Unresolved ==
    /\ CallReturned
    /\ ~HasError(last.result)
    /\ LET r == last.result
       IN  CASE LastKind = "spaces" -> IsNone(FirstNamed(ItemsOf(r), args.space_name))
             [] LastKind = "projects" -> IsNone(FirstNamed(ItemsOf(r), args.project_name))
             [] LastKind = "channels" -> IsNone(FirstNamed(ItemsOf(r), args.channel_name))
             [] LastKind = "releases" /\ op # "get_project_details" ->
                    /\ ~IsList(r)
                    /\ IsNone(find_release(Get(r.d, "Items", <<>>), RequestedVersion))
             [] LastKind = "environments" /\ op # "get_project_details" ->
                    IF RequestedEnvironment \in {None, ""}
                    THEN ItemsOf(r) = <<>>
                    ELSE IsNone(FirstNamed(ItemsOf(r), RequestedEnvironment))
             [] OTHER -> FALSE

\* the latest call returned an adapter error
AdapterError == CallReturned /\ HasError(last.result)

Tolerated ==
    \/ op = "get_project_details" /\ LastKind \in {"releases", "deployments", "environments"}
    \/ LastKind \in {"deploy_post", "task"}

C3_FailedPostReturnsError ==
    (DeployPostFailed /\ LastStatus(500)) =>
        /\ ret.kind = "return"
        /\ "error" \in DOMAIN ret.payload
        /\ ret.payload.error = "API request failed with status 500: Internal Server Error"

\* C4: when the first request of an invocation fails at the transport
\* level, the operation returns an error payload carrying the adapter's own
\* message: "Authentication failed..." for HTTP 401, "Failed to connect..."
\* or "Unexpected error..." for a raised exception.
C4_FirstFailureKeepsAdapterMessage ==
    (Done /\ CallReturned /\ Len(calls) = 1) =>
        /\ LastStatus(401) =>
              /\ ret.kind = "return"
              /\ "error" \in DOMAIN ret.payload
              /\ ret.payload.error = "Authentication failed. Please check your API key."
        /\ last.outcome.t \in {"RequestError", "Exception"} =>
              /\ ret.kind = "return"
              /\ "error" \in DOMAIN ret.payload
              /\ ret.payload.error \in
                    {"Failed to connect to Octopus Deploy API: " \o last.outcome.e,
                     "Unexpected error: " \o last.outcome.e}

\* C5: no operation raises to its caller: whatever the arguments and the
\* remote outcomes, an operation ends by returning a payload that is the
\* success payload or {"error": message}.
C5_NeverRaises ==
    Done => /\ ret.kind = "return"
            /\ IsErrorPayload(ret.payload) \/ IsSuccessPayload(ret.payload)

\* the entries and the length bound of the collection a request reads
CollectionsAt(kind) ==
    CASE kind = "spaces" -> SeqsUpTo(SpaceEntries, MaxItems)
      [] kind = "projects" -> SeqsUpTo(ProjectEntries, MaxItems)
      [] kind = "channels" -> SeqsUpTo(ChannelEntries, MaxItems)
      [] kind = "releases" -> SeqsUpTo(ReleaseEntries, MaxItems)
      [] kind = "deployments" -> SeqsUpTo(DeploymentEntries, MaxDeps)
      [] kind = "environments" -> SeqsUpTo(EnvironmentEntries, MaxEnvs)
      [] kind = "feed" -> SeqsUpTo(VersionEntries, MaxItems)
      [] OTHER -> {}

\* C6: every collection an operation reads (spaces, projects, channels,
\* releases, release deployments, environments, package versions) is accepted
\* in both representations: the operation goes on the same way whether the
\* collection arrives as a bare list or as {Items: [...]} with the same items.
C6_EitherRepresentation ==
    client = "open" =>
        \A s \in CollectionsAt(pc) :
            Resume(op, args, pc, loc, JList(s))
                = Resume(op, args, pc, loc, JDict([Items |-> s]))

\* C7: every payload an operation returns has exactly one of two shapes: the
\* key "error" and no "success" key, or "success": true and no "error" key.
C7_PayloadShape ==
    Returned =>
        /\ "error" \in DOMAIN ret.payload \/ "success" \in DOMAIN ret.payload
        /\ ~("error" \in DOMAIN ret.payload /\ "success" \in DOMAIN ret.payload)
        /\ "success" \in DOMAIN ret.payload => ret.payload.success = TRUE

\* a success payload returned although the latest request ended in an error
C7_Witness ==
    Returned /\ CallReturned /\ HasError(last.result) /\ "success" \in DOMAIN ret.payload

\* a required parameter of the invocation is empty
RequiredMissing ==
    /\ op \in Tools
    /\ \/ args.project_name = ""
       \/ op = "create_release" /\ args.version = ""
       \/ op = "deploy_release" /\ args.environment_name = ""

RequiredMessage ==
    CASE op = "create_release" -> "project_name and version are required"
      [] op = "deploy_release" -> "project_name and environment_name are required"
      [] OTHER -> "project_name is required"

\* C8: required-parameter validation happens before any remote call: with
\* an empty project_name (any operation), an empty version (create_release)
\* or an empty environment_name (deploy_release) the operation returns its
\* "... required" error payload and issues no remote request.
C8_ValidationBeforeRequests ==
    RequiredMissing =>
        /\ Done
        /\ ret = [kind |-> "return", payload |-> [error |-> RequiredMessage]]
        /\ calls = <<>>
        /\ netio = 0
        /\ client = "closed"

C8_Witness ==
    /\ RequiredMissing /\ Done
    /\ op = "deploy_release" /\ args.project_name # "" /\ args.environment_name = ""

\* the base URL or the API key is absent
CredentialsAbsent == base_url = "" \/ api_key = None \/ api_key = ""

\* C9: with the base URL or the API key absent, every call of _make_request
\* returns an error value without opening a client or attempting network
\* I/O, so no operation performs network I/O.
C9_NoCredentialsNoNetwork ==
    CredentialsAbsent =>
        /\ client = "closed"
        /\ netio = 0
        /\ \A i \in 1..Len(calls) : calls[i].result = "error"
        /\ Len(calls) > 0 =>
              /\ last.outcome = NoOutcome
              /\ last.result = JDict([error |->
                    "Missing Octopus Deploy credentials. Please configure OCTOPUS_URL and OCTOPUS_API_KEY environment variables."])

C9_Witness ==
    base_url # "" /\ api_key = "" /\ Len(calls) = 1 /\ last.outcome = NoOutcome

\* C10: the request primitive maps every outcome to a result and never
\* throws: 200 or 201 gives the decoded JSON body; 401 the "Authentication
\* failed" error; 404 the "Resource not found" error; any other status an
\* error with the status code and the response text; a network-level
\* exception the "Failed to connect" error; any other exception, a body
\* that fails to decode included, the "Unexpected error" error.
C10_RequestMapping ==
    (CallReturned /\ last.outcome # NoOutcome) =>
        LET o == last.outcome
            r == last.result
        IN  /\ r.kind \in {"list", "dict"}
            /\ (o.t = "response" /\ o.status \in {200, 201} /\ o.json # Undecodable)
                  => r = o.json
            /\ (o.t = "response" /\ o.status \in {200, 201} /\ o.json = Undecodable)
                  => r = JDict([error |-> "Unexpected error: Expecting value"])
            /\ (o.t = "response" /\ o.status = 401)
                  => r = JDict([error |-> "Authentication failed. Please check your API key."])
            /\ (o.t = "response" /\ o.status = 404)
                  => r = JDict([error |-> "Resource not found."])
            /\ (o.t = "response" /\ o.status \notin {200, 201, 401, 404})
                  => r = JDict([error |-> "API request failed with status "
                                            \o ToString(o.status) \o ": " \o o.text])
            /\ o.t = "RequestError"
                  => r = JDict([error |-> "Failed to connect to Octopus Deploy API: " \o o.e])
            /\ o.t = "Exception"
                  => r = JDict([error |-> "Unexpected error: " \o o.e])

\* a 201 answer whose body was handed on
C10_Witness ==
    /\ LastStatus(201)
    /\ last.outcome.json # Undecodable
    /\ last.result = last.outcome.json
    /\ LastKind = "release_post"

----------------------------------------------------------------------------
(* Name resolution                                                         *)

\* the latest call is the collection fetch of a lookup by name
NameLookup ==
    /\ CallReturned
    /\ \/ LastKind \in {"spaces", "projects", "channels"}
       \/ LastKind = "environments" /\ op = "deploy_release"
       \/ /\ LastKind = "environments" /\ op = "check_deployment_status"
          /\ RequestedEnvironment \notin {None, ""}

\* the name that lookup is for
LookedUpName ==
    CASE LastKind = "spaces" -> args.space_name
      [] LastKind = "projects" -> args.project_name
      [] LastKind = "channels" -> args.channel_name
      [] LastKind = "environments" -> RequestedEnvironment

\* the payload of an operation whose lookup by name found nothing
NotFoundPayload ==
    CASE LastKind = "spaces" -> [error |-> SpaceNotFound(args)]
      [] LastKind = "projects" -> [error |-> ProjectNotFound(op, args)]
      [] LastKind = "channels" -> [error |-> ChannelNotFound(args)]
      [] LastKind = "environments" ->
            [error |-> EnvironmentNotFound(args, RequestedEnvironment)]

\* the operation goes on with entry e as the entity the lookup resolved; an
\* entry without Id stops the operation where the Id is first read
GoesOnWith(e) ==
    CASE LastKind = "spaces" ->
            IF Has(e, "Id") THEN pc = "projects" /\ loc.space = e
            ELSE pc = "done" /\ ret.kind = "raise"
      [] LastKind = "projects" ->
            IF Has(e, "Id") THEN pc \in {"channels", "releases"} /\ loc.project = e
            ELSE pc = "done" /\ ret.kind = "raise"
      [] LastKind = "channels" ->
            IF Has(e, "Id") THEN pc = "template" /\ loc.channel = e
            ELSE pc = "done" /\ ret.kind = "raise"
      [] LastKind = "environments" /\ op = "deploy_release" ->
            pc = "deploy_post" /\ loc.environment = e
      [] LastKind = "environments" /\ op = "check_deployment_status" ->
            \/ pc = "deployments" /\ loc.environments = <<e>>
            \/ pc = "done" /\ ret.kind = "raise"

\* C11: name resolution (spaces, projects, channels, environments) returns
\* the first entry, in the order the collection was returned, whose Name
\* equals the requested name ignoring case; with duplicate names the
\* earliest entry wins, and when no entry matches it returns not-found.
C11_FirstMatchIgnoringCase ==
    (NameLookup /\ ~HasError(last.result)) =>
        LET items == ItemsOf(last.result)
            Matches(i) == Lower(Get(items[i], "Name", "")) = Lower(LookedUpName)
        IN  IF \A i \in 1..Len(items) : ~Matches(i)
            THEN Returned /\ ret.payload = NotFoundPayload
            ELSE \E i \in 1..Len(items) :
                    /\ Matches(i)
                    /\ \A j \in 1..(i - 1) : ~Matches(j)
                    /\ GoesOnWith(items[i])

\* channel "Default" looked up in <<"default", "Default">>: the entry named
\* "default" is the one resolved
C11_Witness ==
    /\ NameLookup /\ LastKind = "channels" /\ ~HasError(last.result)
    /\ Len(ItemsOf(last.result)) = 2
    /\ ItemsOf(last.result)[1] = [Id |-> "Channels-2", Name |-> "default"]
    /\ ItemsOf(last.result)[2] = [Id |-> "Channels-1", Name |-> "Default"]
    /\ pc = "template" /\ loc.channel.Id = "Channels-2"

----------------------------------------------------------------------------
(* The latest release                                                      *)

\* the latest call fetched the project's releases as {Items: [...]}
ReleasesFetched ==
    /\ CallReturned /\ LastKind = "releases"
    /\ ~HasError(last.result) /\ ~IsList(last.result)

FetchedReleases == Get(last.result.d, "Items", <<>>)

\* C12: "latest" is uniformly the first element of the project's release
\* collection as returned: get_latest_release reports that element (or the
\* error "No releases found for project '<name>'" when the collection is
\* empty), deploy_release and check_deployment_status select it when
\* release_version is omitted or empty, and the active-environment
\* derivation of get_project_details uses it.
C12_LatestIsFirst ==
    ReleasesFetched =>
        LET releases == FetchedReleases
        IN  IF releases = <<>>
            THEN op = "get_latest_release" =>
                    /\ Returned
                    /\ ret.payload =
                          [error |-> "No releases found for project '"
                                        \o args.project_name \o "'"]
            ELSE /\ op = "get_latest_release" =>
                        /\ Returned
                        /\ IsSuccessPayload(ret.payload)
                        /\ ret.payload.latest_release.id = GetN(releases[1], "Id")
                        /\ ret.payload.latest_release.version =
                              GetN(releases[1], "Version")
                 /\ (op \in {"deploy_release", "check_deployment_status"}
                        /\ RequestedVersion \in {None, ""}) =>
                        pc = "environments" /\ loc.release = releases[1]
                 /\ op = "get_project_details" =>
                        IF Has(releases[1], "Id")
                        THEN pc = "deployments" /\ loc.release = releases[1]
                        ELSE pc = "done" /\ ret.kind = "raise"

\* deploy_release without a version, two releases on offer: the first is
\* the one selected
C12_Witness ==
    /\ ReleasesFetched /\ op = "deploy_release" /\ args.release_version = None
    /\ Len(FetchedReleases) = 2
    /\ FetchedReleases[1] # FetchedReleases[2]
    /\ pc = "environments" /\ loc.release = FetchedReleases[1]

----------------------------------------------------------------------------
(* get_project_details: the active environments it reports                 *)

\* get_project_details has returned its success payload
DetailsReturned ==
    Returned /\ op = "get_project_details" /\ IsSuccessPayload(ret.payload)

\* the derivation ended on a fetched collection that holds nothing: no
\* release, no deployment of the latest release, or no environment
DerivedFromNothing ==
    /\ CallReturned /\ ~HasError(last.result)
    /\ \/ LastKind \in {"releases", "deployments"}
          /\ ~IsList(last.result) /\ Get(last.result.d, "Items", <<>>) = <<>>
       \/ LastKind = "environments" /\ ItemsOf(last.result) = <<>>

\* C13: get_project_details never reports active_environments as an empty
\* list: whenever the derived set of active environments is empty (no
\* releases, latest release without deployments, no environment matching)
\* active_environments is the literal string "There is no active
\* environment with a release for this project"; otherwise it is a
\* non-empty list of {id, name}.
C13_SentinelNotEmptyList ==
    DetailsReturned =>
        LET active == ret.payload.active_environments
        IN  /\ DOMAIN active \in {{"message"}, {"list"}}
            /\ "message" \in DOMAIN active =>
                  active.message =
                      "There is no active environment with a release for this project"
            /\ "list" \in DOMAIN active =>
                  /\ active.list # <<>>
                  /\ \A i \in 1..Len(active.list) :
                        DOMAIN active.list[i] = {"id", "name"}
            /\ (DerivedFromNothing \/ AdapterError) => "message" \in DOMAIN active
            /\ "list" \in DOMAIN active =>
                  /\ LastKind = "environments"
                  /\ \A i \in 1..Len(active.list) :
                        \E j \in 1..Len(ItemsOf(last.result)) :
                            active.list[i] = IdName(ItemsOf(last.result)[j])

\* the latest release has no deployments: the sentinel is reported
C13_Witness ==
    /\ DetailsReturned /\ DerivedFromNothing /\ LastKind = "deployments"
    /\ "message" \in DOMAIN ret.payload.active_environments

----------------------------------------------------------------------------
(* create_release: the package requirements of the template                *)

\* create_release is at its release POST: every requirement has been
\* through the package loop
AtReleasePost == op = "create_release" /\ pc = "release_post"

\* the requests made for the requirements: calls 5 .. 4 + n, after
\* spaces, projects, channels and template
FeedQueries == {i \in 1..Len(calls) : calls[i].kind = "feed"}

FeedEndpoint(package) ==
    loc.space.Id \o "/feeds/" \o package.FeedId \o "/packages/versions?packageId="
        \o package.PackageId \o "&take=1"

\* one feed query per requirement, in template order, each with take=1
OneQueryPerRequirement ==
    AtReleasePost =>
        /\ FeedQueries = {4 + k : k \in 1..Len(loc.packages)}
        /\ \A k \in 1..Len(loc.packages) :
              /\ calls[4 + k].method = "GET"
              /\ calls[4 + k].endpoint = FeedEndpoint(loc.packages[k])
        /\ client = "open" =>
              calls[Len(calls)].data.SelectedPackages = loc.selected_packages

\* C14 (as claimed): for a template listing n package requirements
\* create_release issues exactly n feed version queries, in template order
\* and with take=1, and the SelectedPackages of the release POST has exactly
\* n entries, entry i carrying requirement i's action name and package
\* reference name.
C14_OneEntryPerRequirement ==
    /\ OneQueryPerRequirement
    /\ AtReleasePost =>
          /\ Len(loc.selected_packages) = Len(loc.packages)
          /\ \A k \in 1..Len(loc.packages) :
                /\ loc.selected_packages[k].ActionName = loc.packages[k].ActionName
                /\ loc.selected_packages[k].PackageReferenceName =
                      loc.packages[k].PackageReferenceName

\* one pass of the package loop: the feed query of requirement i returns
\* and create_release goes on to the next query or to the POST
FeedAnswered ==
    /\ op = "create_release" /\ pc = "feed" /\ client = "open"
    /\ pc' \in {"feed", "release_post"}

\* what that pass leaves in selected_packages
AfterFeedAnswered ==
    LET versions == ItemsOf(last'.result)
        package == loc.packages[loc.i]
    IN  /\ ~HasError(last'.result)
        /\ loc'.packages = loc.packages
        /\ loc'.i = loc.i + 1
        /\ pc' = "release_post" <=> loc.i = Len(loc.packages)
        /\ loc'.selected_packages =
              IF versions = <<>> THEN loc.selected_packages
              ELSE Append(loc.selected_packages,
                          [ActionName |-> package.ActionName,
                           PackageReferenceName |-> package.PackageReferenceName,
                           Version |-> versions[1].Version])

\* C14 (amended): when create_release reaches its release POST for a
\* template listing n package requirements it has issued exactly n feed
\* version queries, one per requirement, in template order, each with
\* take=1; the SelectedPackages of the POST holds, in template order, one
\* entry for each requirement whose feed response held at least one item,
\* carrying that requirement's action name and package reference name and
\* the version of the first item of its feed response; a requirement whose
\* feed response is empty gets no entry, so SelectedPackages has at most n
\* entries.
C14_EntryPerNonEmptyFeed ==
    /\ [](OneQueryPerRequirement
            /\ (AtReleasePost => Len(loc.selected_packages) <= Len(loc.packages)))
    /\ [][FeedAnswered => AfterFeedAnswered]_vars

\* two requirements, two feed queries, one entry: one feed held nothing
C14_Witness ==
    /\ AtReleasePost /\ client = "open"
    /\ Len(loc.packages) = 2 /\ Cardinality(FeedQueries) = 2
    /\ Len(loc.selected_packages) = 1
    /\ loc.selected_packages[1].ActionName = loc.packages[2].ActionName

----------------------------------------------------------------------------
(* check_deployment_status: the environments it checks                     *)

\* check_deployment_status has the answer to its environments request
EnvironmentsAnswered ==
    op = "check_deployment_status" /\ CallReturned /\ LastKind = "environments"

\* it goes on to the deployments request with these environments to check;
\* a release without Id stops it at the endpoint of that request
ChecksExactly(environments) ==
    \/ pc = "deployments" /\ loc.environments = environments
    \/ pc = "done" /\ ret.kind = "raise"

\* C15: check_deployment_status with environment_name omitted (or empty)
\* checks every environment of the space; with a specific name it checks
\* only the environment resolved from that name; and when the name resolves
\* to no environment it returns the environment-not-found error instead of a
\* success payload.
C15_EnvironmentsToCheck ==
    EnvironmentsAnswered =>
        LET name == RequestedEnvironment
            items == IF HasError(last.result) THEN <<>> ELSE ItemsOf(last.result)
            named == {i \in 1..Len(items) :
                         Lower(Get(items[i], "Name", "")) = Lower(name)}
        IN  IF name \in {None, ""}
            THEN items # <<>> => ChecksExactly(items)
            ELSE IF named # {}
                 THEN \E i \in named :
                         /\ \A j \in named : i <= j
                         /\ ChecksExactly(<<items[i]>>)
                 ELSE /\ Returned
                      /\ ret.payload =
                            [error |-> "Environment '" \o name \o "' not found in "
                                          \o args.space_name \o " space"]

\* no name given, two environments in the space: both are checked
C15_Witness ==
    /\ EnvironmentsAnswered /\ args.environment_name = ""
    /\ ~HasError(last.result) /\ Len(ItemsOf(last.result)) = 2
    /\ ItemsOf(last.result)[1] # ItemsOf(last.result)[2]
    /\ pc = "deployments" /\ loc.environments = ItemsOf(last.result)

----------------------------------------------------------------------------
(* check_deployment_status: the statuses it reports                        *)

\* the step in which check_deployment_status returns its success payload:
\* the deployments request or the last task request is answered
CheckSucceeds ==
    /\ op = "check_deployment_status" /\ client = "open"
    /\ pc \in {"deployments", "task"}
    /\ pc' = "done" /\ ret'.kind = "return" /\ IsSuccessPayload(ret'.payload)

\* the deployments collection of the selected release in that step
CheckedDeployments ==
    IF pc = "deployments" THEN Get(last'.result.d, "Items", <<>>) ELSE loc.deployments

\* the entries as claimed: one for each checked environment with a
\* deployment to it, in checked order, from the first such deployment
StatusesAsClaimed ==
    LET statuses == ret'.payload.deployment_statuses
        environments == loc.environments
        deployments == CheckedDeployments
        To(i) == {k \in 1..Len(deployments) :
                     GetN(deployments[k], "EnvironmentId") = GetN(environments[i], "Id")}
        deployed == {i \in 1..Len(environments) : To(i) # {}}
    IN  /\ Len(statuses) = Cardinality(deployed)
        /\ \A i \in deployed :
              LET position == Cardinality({j \in deployed : j <= i})
                  first == CHOOSE k \in To(i) : \A m \in To(i) : k <= m
              IN  /\ statuses[position].environment =
                        [id |-> GetN(environments[i], "Id"),
                         name |-> GetN(environments[i], "Name")]
                  /\ statuses[position].deployment_status.deployment_id =
                        GetN(deployments[first], "Id")
                  /\ statuses[position].deployment_status.task_id =
                        GetN(deployments[first], "TaskId")
        /\ deployed = {} =>
              /\ statuses = <<>>
              /\ ret'.payload.summary.deployed_count = 0

\* C16: in a successful check_deployment_status, deployment_statuses holds
\* exactly one entry for each checked environment that has at least one
\* deployment of the selected release with that environment's id, in the
\* order of the checked environments and built from the first such
\* deployment of the collection; environments without a matching deployment
\* are omitted, so with no matching deployment at all deployment_statuses is
\* [] and summary.deployed_count is 0.
C16_StatusPerDeployedEnvironment == [][CheckSucceeds => StatusesAsClaimed]_vars

\* two environments checked, deployments to one of them only: one entry,
\* for that environment
C16_Witness ==
    /\ Returned /\ op = "check_deployment_status" /\ IsSuccessPayload(ret.payload)
    /\ ret.payload.summary.total_environments_checked = 2
    /\ Len(ret.payload.deployment_statuses) = 1
    /\ ret.payload.deployment_statuses[1].environment.id = "Environments-1"
    /\ ret.payload.deployment_statuses[1].deployment_status.deployment_id = "Deployments-2"

\* C17: in every success payload of check_deployment_status,
\* summary.deployed_count and summary.environments_with_deployments both
\* equal the length of deployment_statuses, summary.total_environments_checked
\* equals the number of environments checked, and deployed_count never
\* exceeds total_environments_checked.
C17_SummaryCounts ==
    [][CheckSucceeds =>
          LET summary == ret'.payload.summary
          IN  /\ summary.deployed_count = Len(ret'.payload.deployment_statuses)
              /\ summary.environments_with_deployments =
                    Len(ret'.payload.deployment_statuses)
              /\ summary.total_environments_checked = Len(loc.environments)
              /\ summary.deployed_count <= summary.total_environments_checked]_vars

\* two environments checked, each with a deployment
C17_Witness ==
    /\ Returned /\ op = "check_deployment_status" /\ IsSuccessPayload(ret.payload)
    /\ ret.payload.summary.total_environments_checked = 2
    /\ ret.payload.summary.deployed_count = 2
    /\ Len(ret.payload.deployment_statuses) = 2

----------------------------------------------------------------------------
(* Deploy, then check                                                      *)

\* check_deployment_status has ended, in the workflow, after a deployment
\* was created
CheckedAfterDeploy == Done /\ op = "check_deployment_status" /\ remote # <<>>

\* C18: against a remote that records created deployments, in a space with
\* one project, one release and one environment, a deploy_release whose
\* POST succeeds followed by check_deployment_status for the same project,
\* version and environment reports exactly one deployment_statuses entry,
\* for that environment, whose state is the state of the task of the
\* created deployment.
C18_DeployThenCheck ==
    CheckedAfterDeploy =>
        /\ ret.kind = "return"
        /\ IsSuccessPayload(ret.payload)
        /\ Len(ret.payload.deployment_statuses) = 1
        /\ LET entry == ret.payload.deployment_statuses[1]
               created == remote[1]
           IN  /\ entry.environment = [id |-> "Environments-1", name |-> "Production"]
               /\ created.ReleaseId = "Releases-1"
               /\ created.EnvironmentId = "Environments-1"
               /\ entry.deployment_status.deployment_id = created.Id
               /\ entry.deployment_status.task_id = created.TaskId
               /\ calls[Len(calls)].endpoint = "tasks/" \o created.TaskId
               /\ last.outcome.status = 200
               /\ entry.deployment_status.state = last.outcome.json.d.State
               /\ entry.deployment_status.state \in
                     {"Queued", "Executing", "Success", "Failed"}

\* one deployment created, its task has succeeded, the check says so
C18_Witness ==
    /\ CheckedAfterDeploy /\ Len(remote) = 1 /\ ret.kind = "return"
    /\ Len(ret.payload.deployment_statuses) = 1
    /\ ret.payload.deployment_statuses[1].deployment_status.state = "Success"
    /\ ret.payload.deployment_statuses[1].deployment_status.completed = TRUE

----------------------------------------------------------------------------
(* Configuration loading                                                   *)

\* from_env has run
ConfigLoaded == settings # Unloaded

\* OCTOPUS_URL or OCTOPUS_API_KEY is missing or empty
VariableMissing ==
    \/ "unset" \in DOMAIN environ.OCTOPUS_URL
    \/ "unset" \in DOMAIN environ.OCTOPUS_API_KEY
    \/ Len(environ.OCTOPUS_URL.value) = 0
    \/ Len(environ.OCTOPUS_API_KEY.value) = 0

\* the first n characters of url are url without its trailing slashes
StrippedAt(url, n) ==
    /\ \A k \in (n + 1)..Len(url) : url[k] = "/"
    /\ n > 0 => url[n] # "/"

EndsWithApi(s) ==
    /\ Len(s) >= 4
    /\ s[Len(s) - 3] = "/" /\ s[Len(s) - 2] = "a"
    /\ s[Len(s) - 1] = "p" /\ s[Len(s)] = "i"

\* C19: configuration loading: if OCTOPUS_URL or OCTOPUS_API_KEY is missing
\* or empty the process exits with nonzero status and no configuration
\* value is produced; otherwise the resulting base URL has no trailing slash
\* and ends with "/api", the suffix being appended only when not already
\* present, so normalizing an already normalized URL leaves it unchanged.
C19_ConfigurationLoading ==
    ConfigLoaded =>
        IF VariableMissing
        THEN /\ DOMAIN settings = {"exit"}
             /\ settings.exit # 0
        ELSE /\ DOMAIN settings = {"base_url", "api_key"}
             /\ settings.api_key = environ.OCTOPUS_API_KEY.value
             /\ settings.base_url[Len(settings.base_url)] # "/"
             /\ EndsWithApi(settings.base_url)
             /\ LET url == environ.OCTOPUS_URL.value
                IN  \E n \in 0..Len(url) :
                        /\ StrippedAt(url, n)
                        /\ settings.base_url =
                              IF EndsWithApi(SubSeq(url, 1, n)) THEN SubSeq(url, 1, n)
                              ELSE SubSeq(url, 1, n) \o ApiSuffix
             /\ EnsureApiSuffix(settings.base_url) = settings.base_url

\* OCTOPUS_URL "/api/": stripped to "/api", nothing appended
C19_Witness ==
    /\ ConfigLoaded /\ ~VariableMissing
    /\ environ.OCTOPUS_URL.value = <<"/", "a", "p", "i", "/">>
    /\ settings.base_url = <<"/", "a", "p", "i">>

----------------------------------------------------------------------------
(* Name resolution over a failed fetch                                     *)

\* the collection fetch of a lookup by name is in flight
NameLookupPending ==
    /\ client = "open"
    /\ \/ pc \in {"spaces", "projects", "channels"}
       \/ pc = "environments" /\ op = "deploy_release"
       \/ /\ pc = "environments" /\ op = "check_deployment_status"
          /\ loc.environment_name \notin {None, ""}

\* the error values _make_request can hand to the resolver
AdapterErrors ==
    {[kind |-> "dict", d |-> [error |-> m]] :
        m \in {"Authentication failed. Please check your API key.",
               "Resource not found.",
               "API request failed with status 500: Internal Server Error",
               "Failed to connect to Octopus Deploy API: connection refused",
               "Unexpected error: boom"}}

----------------------------------------------------------------------------
(* Release selection                                                       *)

\* _find_release has returned
ReleaseSelected == op = "_find_release" /\ pc = "done" /\ ret.kind = "return"

\* the positions of the releases whose Version is exactly v
VersionedAt(releases, v) ==
    {i \in 1..Len(releases) :
        "Version" \in DOMAIN releases[i] /\ releases[i].Version = v}

\* C21: _find_release yields none for an empty list, whatever the version;
\* with a version supplied it yields the first release whose Version equals
\* it exactly (case-sensitive) and none when no release matches, never the
\* latest instead; with no version it yields the first element of the list
\* as given.
C21_ReleaseSelection ==
    ReleaseSelected =>
        LET releases == args.releases
            version == args.version
            found == ret.payload
            at == VersionedAt(releases, version)
        IN  /\ releases = <<>> => found = NoneDict
            /\ (releases # <<>> /\ version \notin {None, ""}) =>
                  /\ at = {} => found = NoneDict
                  /\ at # {} =>
                        \E i \in at : /\ \A j \in at : i <= j
                                      /\ found = releases[i]
            /\ (releases # <<>> /\ version \in {None, ""}) => found = releases[1]

\* the version asked for is the second of three releases, after one whose
\* version differs from it in case only and before one with the same version
C21_Witness ==
    /\ ReleaseSelected
    /\ args.version = "1.0-rc"
    /\ Len(args.releases) = 3
    /\ args.releases[1].Id = "Releases-2"
    /\ args.releases[2].Id = "Releases-1"
    /\ args.releases[3].Id = "Releases-3"
    /\ ret.payload = args.releases[2]

----------------------------------------------------------------------------
(* The active-environment derivation of get_project_details                *)

DerivationKinds == {"releases", "deployments", "environments"}

\* the latest call is one of the three requests of the derivation
DerivationCall ==
    op = "get_project_details" /\ CallReturned /\ LastKind \in DerivationKinds

\* the derivation has given get_project_details the empty result and
\* nothing was requested after the latest call
EmptyResult ==
    /\ Returned
    /\ IsSuccessPayload(ret.payload)
    /\ DOMAIN ret.payload.active_environments = {"message"}

\* the collection holds no item, in either representation
HoldsNothing(r) ==
    \/ r.kind = "list" /\ r.items = <<>>
    \/ r.kind = "dict" /\ ("Items" \notin DOMAIN r.d \/ r.d.Items = <<>>)

\* the collection holds no item, as the step that reads it takes it: a
\* releases or deployments response is read by its Items key
ReadsNothing(r) ==
    IF LastKind = "environments" THEN HoldsNothing(r)
    ELSE r.kind = "dict" /\ ("Items" \notin DOMAIN r.d \/ r.d.Items = <<>>)

\* the deployments request names the release the derivation took
\* from the releases collection
DeploymentsOfTakenRelease ==
    (op = "get_project_details" /\ pc \in {"deployments", "environments"}
        /\ Len(calls) >= 4) =>
        /\ calls[4].kind = "deployments"
        /\ calls[4].endpoint =
              loc.space.Id \o "/releases/" \o loc.release.Id \o "/deployments"

\* a request of the derivation is answered with a collection
DerivationStep ==
    /\ op = "get_project_details" /\ client = "open" /\ pc \in DerivationKinds
    /\ client' = "closed"
    /\ last'.result.kind \in {"list", "dict"}
    /\ "error" \notin (IF last'.result.kind = "dict" THEN DOMAIN last'.result.d ELSE {})
    /\ ret'.kind # "raise"

\* the items of the collection just answered
AnsweredItems ==
    IF last'.result.kind = "list" THEN last'.result.items
    ELSE IF "Items" \in DOMAIN last'.result.d THEN last'.result.d.Items ELSE <<>>

\* what the derivation does with the collection: the first release is
\* taken; the environment ids of its deployments are collected; the
\* environments of the space are filtered by them, in order, as {id, name}
DerivationStepAsClaimed ==
    LET items == AnsweredItems
    IN  /\ (pc = "releases" /\ items # <<>>) =>
              /\ pc' = "deployments"
              /\ loc'.release = items[1]
        /\ (pc = "deployments" /\ items # <<>>) =>
              /\ pc' = "environments"
              /\ loc'.env_ids =
                    {items[k].EnvironmentId :
                        k \in {n \in 1..Len(items) : "EnvironmentId" \in DOMAIN items[n]}}
        /\ pc = "environments" =>
              LET active == {i \in 1..Len(items) :
                                "Id" \in DOMAIN items[i] /\ items[i].Id \in loc.env_ids}
                  reported == ret'.payload.active_environments
              IN  /\ pc' = "done" /\ ret'.kind = "return"
                  /\ active = {} => DOMAIN reported = {"message"}
                  /\ active # {} =>
                        /\ DOMAIN reported = {"list"}
                        /\ Len(reported.list) = Cardinality(active)
                        /\ \A i \in active :
                              reported.list[Cardinality({j \in active : j <= i})] =
                                  [id |-> items[i].Id,
                                   name |-> IF "Name" \in DOMAIN items[i]
                                            THEN items[i].Name ELSE None]

\* C22: the active-environment derivation returns exactly the environments
\* of the space, in the order of the environments collection and each as
\* {id, name}, whose id is the environment id of at least one deployment of
\* the first (latest) release of the project; deployments of an older release
\* never contribute; an adapter error or an empty collection at the releases,
\* deployments or environments step yields the empty result with no further
\* request.
C22_ActiveEnvironments ==
    /\ [](/\ DeploymentsOfTakenRelease
          /\ (DerivationCall /\ (HasError(last.result) \/ HoldsNothing(last.result)))
                => EmptyResult)
    /\ [][DerivationStep => DerivationStepAsClaimed]_vars

\* C22, for releases and deployments collections answered as {Items: [...]}:
\* the same derivation, with an empty collection at the releases or the
\* deployments step being an object whose Items is empty or absent.
C22_ActiveEnvironmentsFromItems ==
    /\ [](/\ DeploymentsOfTakenRelease
          /\ (DerivationCall /\ (HasError(last.result) \/ ReadsNothing(last.result)))
                => EmptyResult)
    /\ [][DerivationStep => DerivationStepAsClaimed]_vars

----------------------------------------------------------------------------
(* deploy_release: the deployment-creation POST                            *)

\* the POST requests of the invocation
Posts == {i \in 1..Len(calls) : calls[i].method = "POST"}

\* the calls before the i-th are the given lookups, in order, and each
\* returned without an adapter error
Preceded(i, kinds) ==
    /\ i = Len(kinds) + 1
    /\ \A k \in 1..Len(kinds) : calls[k].kind = kinds[k] /\ calls[k].result = "ok"

\* the latest call is a lookup of deploy_release that did not give what
\* the operation needs: an adapter error, or nothing of the name or version
DeployLookupFailed ==
    /\ op = "deploy_release" /\ CallReturned
    /\ LastKind \in {"spaces", "projects", "releases", "environments"}
    /\ \/ HasError(last.result)
       \/ LastKind = "spaces" /\ IsNone(FirstNamed(ItemsOf(last.result), args.space_name))
       \/ LastKind = "projects"
              /\ IsNone(FirstNamed(ItemsOf(last.result), args.project_name))
       \/ LastKind = "environments"
              /\ IsNone(FirstNamed(ItemsOf(last.result), args.environment_name))
       \/ LastKind = "releases" /\ ~IsList(last.result)
              /\ \/ Get(last.result.d, "Items", <<>>) = <<>>
                 \/ /\ args.release_version \notin {None, ""}
                    /\ \A i \in 1..Len(last.result.d.Items) :
                          GetN(last.result.d.Items[i], "Version") # args.release_version

\* the deployment POST, where there is one, is the fifth call, after the
\* four lookups; until the operation returns its body is held against the
\* release and the environment the invocation resolved
PostAfterLookups ==
    op = "deploy_release" =>
        /\ Cardinality(Posts) <= 1
        /\ \A i \in Posts :
              /\ Preceded(i, <<"spaces", "projects", "releases", "environments">>)
              /\ calls[i].kind = "deploy_post"
              /\ DOMAIN calls[i].data = {"ReleaseId", "EnvironmentId"}
              /\ pc = "deploy_post" =>
                    /\ Truthy(loc.space) /\ Truthy(loc.project)
                    /\ Truthy(loc.release) /\ Truthy(loc.environment)
                    /\ calls[i].endpoint = loc.space.Id \o "/deployments"
                    /\ calls[i].data.ReleaseId = GetN(loc.release, "Id")
                    /\ calls[i].data.EnvironmentId = GetN(loc.environment, "Id")
        /\ (pc = "done" /\ Len(calls) < 5) => Posts = {}
        /\ DeployLookupFailed => (pc = "done" /\ Posts = {})

\* a lookup of deploy_release is answered and the operation goes on
DeployResolves ==
    /\ op = "deploy_release" /\ client = "open" /\ client' = "closed"
    /\ pc \in {"spaces", "projects", "releases", "environments"}
    /\ pc' # "done"

\* what it goes on with is what the answer holds: the first entry of the
\* name, or the release of the requested version (the first one when no
\* version was requested)
DeployResolvesAsAnswered ==
    LET r == last'.result
        items == IF r.kind = "list" THEN r.items ELSE r.d.Items
        named(name) == CHOOSE i \in 1..Len(items) :
                          /\ Lower(Get(items[i], "Name", "")) = Lower(name)
                          /\ \A j \in 1..(i - 1) :
                                Lower(Get(items[j], "Name", "")) # Lower(name)
        versioned == CHOOSE i \in 1..Len(items) :
                          /\ GetN(items[i], "Version") = args.release_version
                          /\ \A j \in 1..(i - 1) :
                                GetN(items[j], "Version") # args.release_version
    IN  /\ pc = "spaces" => pc' = "projects" /\ loc'.space = items[named(args.space_name)]
        /\ pc = "projects" =>
              /\ pc' = "releases"
              /\ loc'.project = items[named(args.project_name)]
              /\ loc'.space = loc.space
        /\ pc = "releases" =>
              /\ pc' = "environments"
              /\ loc'.release =
                    IF args.release_version \in {None, ""} THEN items[1]
                    ELSE items[versioned]
              /\ loc'.space = loc.space /\ loc'.project = loc.project
        /\ pc = "environments" =>
              /\ pc' = "deploy_post"
              /\ loc'.environment = items[named(args.environment_name)]
              /\ loc'.space = loc.space /\ loc'.project = loc.project
              /\ loc'.release = loc.release

\* C23: in deploy_release the deployment-creation POST is issued at most
\* once per invocation and only after space, project, release and
\* environment were all resolved in that invocation; its body carries
\* exactly the id of the selected release and the id of the resolved
\* environment; on every path that returns earlier (validation failure, any
\* not-found, any adapter error, requested version absent) no POST is issued.
C23_PostOnceAfterResolution ==
    /\ []PostAfterLookups
    /\ [][DeployResolves => DeployResolvesAsAnswered]_vars

\* the POST is in flight, for the requested release 1.0 and the environment
\* resolved, as the one POST and the fifth call of the invocation
C23_Witness ==
    /\ op = "deploy_release" /\ pc = "deploy_post" /\ client = "open"
    /\ Posts = {5}
    /\ args.release_version = "1.0"
    /\ calls[5].data = [ReleaseId |-> "Releases-1", EnvironmentId |-> "Environments-1"]

----------------------------------------------------------------------------
(* create_release: the release-creation POST                               *)

\* the latest call is a step of create_release before its POST that failed:
\* an adapter error, or no space, project or channel of the name
CreateStepFailed ==
    /\ op = "create_release" /\ CallReturned
    /\ LastKind \in {"spaces", "projects", "channels", "template", "feed"}
    /\ \/ HasError(last.result)
       \/ LastKind = "spaces" /\ IsNone(FirstNamed(ItemsOf(last.result), args.space_name))
       \/ LastKind = "projects"
              /\ IsNone(FirstNamed(ItemsOf(last.result), args.project_name))
       \/ LastKind = "channels"
              /\ IsNone(FirstNamed(ItemsOf(last.result), args.channel_name))

\* C24: in create_release the release-creation POST is issued at most once
\* per invocation and only after the space, project and channel were
\* resolved, the template was fetched and every package-version lookup
\* returned without error; if any of those steps fails (a missing channel
\* included, reported as "Channel '<name>' not found for project '<name>'")
\* the operation returns that error and issues no POST.
C24_ReleasePostAfterAllSteps ==
    op = "create_release" =>
        /\ Cardinality(Posts) <= 1
        /\ \A i \in Posts :
              /\ i >= 5 /\ i = Len(calls)
              /\ calls[i].kind = "release_post"
              /\ \A k \in 1..4 :
                    /\ calls[k].kind = <<"spaces", "projects", "channels", "template">>[k]
                    /\ calls[k].result = "ok"
              /\ \A k \in 5..(i - 1) : calls[k].kind = "feed" /\ calls[k].result = "ok"
              /\ pc = "release_post" =>
                    /\ Truthy(loc.space) /\ Truthy(loc.project) /\ Truthy(loc.channel)
                    /\ i - 5 = Len(loc.packages)
        /\ CreateStepFailed =>
              /\ Returned
              /\ IsErrorPayload(ret.payload)
              /\ Posts = {}
              /\ (LastKind \in {"template", "feed"}) => ret.payload = last.result.d
              /\ (LastKind = "channels") =>
                    ret.payload.error =
                        "Channel '" \o args.channel_name \o "' not found for project '"
                            \o args.project_name \o "'"
        /\ (pc = "done" /\ (calls = <<>> \/ LastKind # "release_post")) => Posts = {}

\* the POST is in flight after two package-version lookups
C24_Witness ==
    /\ op = "create_release" /\ pc = "release_post" /\ client = "open"
    /\ Posts = {7}
    /\ calls[5].kind = "feed" /\ calls[6].kind = "feed"

----------------------------------------------------------------------------
(* The order of the requests of an operation                               *)

\* the requests every invocation of the operation begins with, in order
FixedOrder(o) ==
    CASE o = "get_project_details" ->
            <<"spaces", "projects", "releases", "deployments", "environments">>
      [] o = "get_latest_release" -> <<"spaces", "projects", "releases">>
      [] o = "create_release" -> <<"spaces", "projects", "channels", "template">>
      [] o = "deploy_release" ->
            <<"spaces", "projects", "releases", "environments", "deploy_post">>
      [] o = "check_deployment_status" ->
            <<"spaces", "projects", "releases", "environments", "deployments">>

\* the calls made so far are a prefix of the order of the operation: the
\* fixed requests, then feed queries closed by the release POST
\* (create_release) or task fetches (check_deployment_status)
PrefixOfOrder ==
    \A i \in 1..Len(calls) :
        IF i <= Len(FixedOrder(op)) THEN calls[i].kind = FixedOrder(op)[i]
        ELSE CASE op = "create_release" ->
                    \/ calls[i].kind = "feed"
                    \/ calls[i].kind = "release_post" /\ i = Len(calls)
               [] op = "check_deployment_status" -> calls[i].kind = "task"
               [] OTHER -> FALSE

\* every link before the latest request was resolved: its request returned
\* without error (a task fetch is the link of no later request)
EarlierResolved ==
    \A i \in 1..(Len(calls) - 1) : calls[i].result = "ok" \/ calls[i].kind = "task"

\* while the invocation runs, the request for the deployments of a release
\* names the release the operation selected
DeploymentsOfSelected ==
    (op \in {"get_project_details", "check_deployment_status"}
        /\ pc \in RequestKinds) =>
        \A i \in 1..Len(calls) :
            calls[i].kind = "deployments" =>
                calls[i].endpoint =
                    loc.space.Id \o "/releases/" \o loc.release.Id \o "/deployments"

\* the error payload of an invocation that made requests is the error of
\* its latest request: the link that request was to resolve
ErrorOfLatestLink ==
    (Returned /\ IsErrorPayload(ret.payload) /\ calls # <<>>) =>
        /\ CallReturned
        /\ HasError(last.result) \/ Unresolved
        /\ CASE LastKind = "spaces" ->
                    ret.payload.error = "Space '" \o args.space_name \o "' not found"
              [] LastKind = "projects" ->
                    ret.payload.error \in
                        {"Project '" \o args.project_name \o "' not found in space '"
                            \o args.space_name \o "'",
                         "Project '" \o args.project_name \o "' not found in "
                            \o args.space_name \o " space"}
              [] LastKind = "channels" ->
                    ret.payload.error =
                        "Channel '" \o args.channel_name \o "' not found for project '"
                            \o args.project_name \o "'"
              [] LastKind = "releases" ->
                    \/ HasError(last.result) /\ ret.payload = last.result.d
                    \/ ~HasError(last.result) /\ ret.payload.error \in
                          {"No releases found for project '" \o args.project_name \o "'",
                           "Release version '" \o Str(RequestedVersion)
                               \o "' not found for project '" \o args.project_name \o "'"}
              [] LastKind = "environments" ->
                    ret.payload.error =
                        "Environment '" \o Str(RequestedEnvironment) \o "' not found in "
                            \o args.space_name \o " space"
              [] OTHER -> ret.payload = last.result.d

\* C25: each operation issues its remote requests in one fixed dependency
\* order, and the requests of any invocation form a prefix of that order:
\* project-details = spaces, projects, releases, deployments of the latest
\* release, environments; latest-release = spaces, projects, releases;
\* create-release = spaces, projects, channels, template, one feed query per
\* package, release POST; deploy-release = spaces, projects, releases,
\* environments, deployment POST; check-status = spaces, projects, releases,
\* environments, deployments of the selected release, then task fetches.  A
\* request for a later link is never issued before the earlier link was
\* resolved, so when several links would fail the reported error is that of
\* the earliest one.
C25_FixedRequestOrder ==
    op \in Tools =>
        /\ PrefixOfOrder
        /\ EarlierResolved
        /\ DeploymentsOfSelected
        /\ ErrorOfLatestLink

\* check_deployment_status at its second task fetch, the seventh request
C25_Witness ==
    /\ op = "check_deployment_status" /\ pc = "task" /\ client = "open"
    /\ Len(calls) = 7
    /\ calls[6].kind = "task" /\ calls[7].kind = "task"

----------------------------------------------------------------------------
(* check_deployment_status: what a status entry takes from the task        *)

\* a task fetch of check_deployment_status is answered
TaskAnswered ==
    /\ op = "check_deployment_status" /\ pc = "task"
    /\ client = "open" /\ client' = "closed"

\* the value of a key of a JSON object, null when the key is absent
Field(d, k) == IF k \in DOMAIN d THEN d[k] ELSE None

\* the entry made for the deployment whose task was fetched: the one
\* appended to the statuses held before the answer
TaskEntryAsClaimed ==
    LET task == last'.result
        failed == task.kind = "dict" /\ "error" \in DOMAIN task.d
        statuses == IF pc' = "done" THEN ret'.payload.deployment_statuses
                    ELSE loc'.statuses
        entry == statuses[Len(loc.statuses) + 1].deployment_status
    IN  /\ Field(loc.deployment, "TaskId") \notin {None, ""}
        /\ calls'[Len(calls')].endpoint = "tasks/" \o loc.deployment.TaskId
        /\ task.kind = "dict" =>
              /\ ret'.kind # "raise"
              /\ pc' = "done" => IsSuccessPayload(ret'.payload)
              /\ Len(statuses) > Len(loc.statuses)
              /\ entry.deployment_id = Field(loc.deployment, "Id")
              /\ entry.task_id = loc.deployment.TaskId
        /\ (task.kind = "dict" /\ ~failed) =>
              /\ entry.state = Field(task.d, "State")
              /\ entry.completed =
                    (IF "IsCompleted" \in DOMAIN task.d THEN task.d.IsCompleted ELSE FALSE)
              /\ entry.started = Field(task.d, "StartTime")
              /\ entry.completed_time = Field(task.d, "CompletedTime")
              /\ entry.duration = Field(task.d, "Duration")
              /\ "error_message" \in DOMAIN entry <=>
                    ("HasWarningsOrErrors" \in DOMAIN task.d /\ task.d.HasWarningsOrErrors)
              /\ "error_message" \in DOMAIN entry =>
                    entry.error_message =
                        (IF "ErrorMessage" \in DOMAIN task.d THEN task.d.ErrorMessage ELSE "")
        /\ failed =>
              /\ entry.state = None
              /\ entry.completed = FALSE
              /\ entry.started = Field(loc.deployment, "Created")
              /\ entry.completed_time = None
              /\ entry.duration = None
              /\ "error_message" \notin DOMAIN entry

\* in the payload of a successful check, an entry without a task id has
\* the defaults and the created timestamp of its deployment, and there are
\* as many task requests as entries with a task id
EntriesAsClaimed ==
    LET statuses == ret'.payload.deployment_statuses
        deployments == CheckedDeployments
        with_task == {i \in 1..Len(statuses) :
                         statuses[i].deployment_status.task_id \notin {None, ""}}
        tasks == {i \in 1..Len(calls') : calls'[i].kind = "task"}
    IN  /\ Cardinality(tasks) = Cardinality(with_task)
        /\ \A i \in (1..Len(statuses)) \ with_task :
              LET entry == statuses[i].deployment_status
              IN  /\ entry.state = None
                  /\ entry.completed = FALSE
                  /\ entry.completed_time = None
                  /\ entry.duration = None
                  /\ "error_message" \notin DOMAIN entry
                  /\ \E k \in 1..Len(deployments) :
                        /\ Field(deployments[k], "Id") = entry.deployment_id
                        /\ Field(deployments[k], "TaskId") \in {None, ""}
                        /\ entry.started = Field(deployments[k], "Created")

\* C26: each deployment status entry takes state, completed, started,
\* completed_time and duration from the task if and only if the deployment
\* has a task id and the task fetch succeeds (with error_message added only
\* when the task reports warnings or errors); when the task id is absent no
\* task request is issued, and in that case or when the task fetch fails the
\* entry keeps state null, completed false and started equal to the
\* deployment's created timestamp, and the operation still succeeds.
\* Exactly one task request is issued per status entry that has a task id.
C26_StatusFromTask ==
    [][(TaskAnswered => TaskEntryAsClaimed) /\ (CheckSucceeds => EntriesAsClaimed)]_vars

\* a check returned two entries: one without a task id, one whose task
\* fetch failed, after a single task request
C26_Witness ==
    /\ Returned /\ op = "check_deployment_status" /\ IsSuccessPayload(ret.payload)
    /\ Len(ret.payload.deployment_statuses) = 2
    /\ ret.payload.deployment_statuses[1].deployment_status.task_id = None
    /\ ret.payload.deployment_statuses[2].deployment_status.task_id = "ServerTasks-3"
    /\ ret.payload.deployment_statuses[2].deployment_status.state = None
    /\ ret.payload.deployment_statuses[2].deployment_status.started = "2024-03-03"
    /\ Len(calls) = 6 /\ calls[6].result = "error"

----------------------------------------------------------------------------
(* check_deployment_status: no environment to check                        *)

\* the environments request of check_deployment_status has returned and
\* gives no environment to check: an adapter error, an empty collection
\* when all environments were asked for, or no environment of the name
NothingToCheck ==
    /\ op = "check_deployment_status" /\ CallReturned /\ LastKind = "environments"
    /\ \/ HasError(last.result)
       \/ RequestedEnvironment \in {None, ""} /\ ItemsOf(last.result) = <<>>
       \/ /\ RequestedEnvironment \notin {None, ""}
          /\ \A i \in 1..Len(ItemsOf(last.result)) :
                Lower(Get(ItemsOf(last.result)[i], "Name", ""))
                    # Lower(RequestedEnvironment)

\* C27: every success payload of check_deployment_status has
\* summary.total_environments_checked >= 1: whenever the list of environments
\* to check is empty (environment_name omitted and the space without
\* environments, or the environments fetch ending in an adapter error,
\* included) the operation returns the environment-not-found error, naming
\* the absent environment_name, and never requests the release's deployments.
C27_AtLeastOneEnvironmentChecked ==
    op = "check_deployment_status" =>
        /\ (Returned /\ IsSuccessPayload(ret.payload)) =>
              ret.payload.summary.total_environments_checked >= 1
        /\ NothingToCheck =>
              /\ Returned
              /\ ret.payload =
                    [error |-> "Environment '"
                                 \o (IF RequestedEnvironment = None THEN "None"
                                     ELSE RequestedEnvironment)
                                 \o "' not found in " \o args.space_name \o " space"]
              /\ \A i \in 1..Len(calls) : calls[i].kind # "deployments"

\* all environments were asked for and the environments fetch failed
C27_Witness ==
    /\ op = "check_deployment_status" /\ Returned /\ CallReturned
    /\ LastKind = "environments" /\ HasError(last.result)
    /\ args.environment_name = ""
    /\ ret.payload = [error |-> "Environment 'None' not found in Default space"]

----------------------------------------------------------------------------
(* Invocations keep nothing                                                *)

\* an operation run as a function: from a step on, over the results it is
\* given one after another, up to its return or its next request
RECURSIVE RunOn(_, _, _, _)
RunOn(o, a, step, results) ==
    IF step.pc \notin RequestKinds \/ results = <<>> THEN step
    ELSE RunOn(o, a, Resume(o, a, step.pc, step.loc, Head(results)), Tail(results))

\* where the invocation is, what it holds and what it returned are what the
\* operation comes to from its arguments over the results heard so far
FunctionOfArgumentsAndResults ==
    op \in Tools =>
        LET step == RunOn(op, args, Start(op, args), heard)
        IN  pc = step.pc /\ loc = step.loc /\ ret = step.ret

\* between two invocations nothing of an invocation is held
NothingKept ==
    pc = "idle" =>
        /\ op = "none" /\ args = NoneDict /\ loc = NoLocals /\ ret = NoRet
        /\ calls = <<>> /\ last = NoExchange /\ heard = <<>>
        /\ client = "closed" /\ netio = 0

\* an invocation that passes validation begins with the request for the
\* spaces collection, and every result it hears is that of a request of its own
ResolvesFromScratch ==
    op \in Tools =>
        /\ Len(heard) = Len(calls) - (IF client = "open" THEN 1 ELSE 0)
        /\ calls = <<>> =>
              \/ pc = "spaces" /\ client = "closed"
                    /\ loc.space = NoneDict /\ loc.project = NoneDict
                    /\ loc.release = NoneDict /\ loc.environment = NoneDict
              \/ pc = "done" /\ RequiredMissing
        /\ calls # <<>> =>
              /\ ~RequiredMissing
              /\ calls[1].kind = "spaces"
              /\ calls[1].endpoint = "spaces/all"
              /\ calls[1].method = "GET"

----------------------------------------------------------------------------
(* One request at a time, one client at a time                             *)

\* the requests of the invocation that have not returned
InFlight == {i \in 1..Len(calls) : calls[i].result = "pending"}

\* the clients opened by the invocation and not yet released: those opened
\* less one for each request that has returned from an exchange
OpenClients ==
    netio - (IF base_url = "" \/ api_key \in {None, ""} THEN 0
             ELSE Cardinality({i \in 1..Len(calls) : calls[i].result # "pending"}))

\* C29: within an operation remote calls are strictly sequential and client
\* resources are scoped: at every point at most one HTTP client is open and
\* at most one request is in flight, a request is issued only after the
\* previous one returned, and each client opened by the request primitive is
\* released before the primitive returns on every outcome (success status,
\* error status, network exception, unexpected exception), so no client is
\* open when an operation returns.
C29_SequentialScopedClients ==
    /\ OpenClients \in {0, 1}
    /\ Cardinality(InFlight) <= 1
    /\ InFlight \subseteq {Len(calls)}
    /\ client = "open" <=> OpenClients = 1
    /\ client = "open" <=> InFlight # {}
    /\ last # NoExchange =>
          /\ client = "closed" /\ OpenClients = 0 /\ InFlight = {}
          /\ last.outcome.t \in {"none", "response", "RequestError", "Exception"}
    /\ pc \in {"idle", "done"} => (client = "closed" /\ OpenClients = 0 /\ InFlight = {})

\* an operation has returned after a request of its own ended in an
\* unexpected exception: its three clients are released
C29_Witness ==
    /\ pc = "done" /\ client = "closed"
    /\ last # NoExchange /\ last.outcome.t = "Exception"
    /\ netio = 3 /\ Len(calls) = 3 /\ OpenClients = 0

----------------------------------------------------------------------------
(* No retry                                                                *)

\* the requests of the invocation that returned an error value
Failed == {i \in 1..Len(calls) : calls[i].result = "error"}

\* the task fetches of the invocation
TaskFetches == {i \in 1..Len(calls) : calls[i].kind = "task"}

\* C30 (as claimed): there is no retry and every failure is terminal for
\* the invocation: once the request primitive has returned an error value,
\* no further remote request is issued by that invocation.
C30_FailureEndsRequests ==
    \A i \in Failed : i = Len(calls)

\* C30 (amended): there is no retry: once the request primitive has
\* returned an error value for any request other than a task fetch, no
\* further remote request is issued by that invocation.  After a failed task
\* fetch check_deployment_status goes on to the remaining environments it
\* checks and issues nothing but their task fetches: a task is fetched at
\* most once for each environment checked, failed or not.
C30_NoRetry ==
    /\ \A i \in Failed : calls[i].kind # "task" => i = Len(calls)
    /\ \A i \in Failed : \A j \in (i + 1)..Len(calls) :
          /\ op = "check_deployment_status"
          /\ calls[i].kind = "task" /\ calls[j].kind = "task"
    /\ pc = "task" =>
          /\ Cardinality(TaskFetches) + (IF client = "open" THEN 0 ELSE 1) <= loc.i
          /\ loc.i <= Len(loc.environments)

\* a task fetch failed and the task of the next environment is being fetched
C30_Witness ==
    /\ op = "check_deployment_status" /\ pc = "task" /\ client = "open"
    /\ Len(calls) = 7
    /\ calls[6].kind = "task" /\ calls[6].result = "error"
    /\ calls[7].kind = "task"
    /\ loc.i = 2

====
